---- MODULE Spec2Model ----
(***************************************************************************)
(* Model of aitest.py: the duplicate-detection and issue-correlation       *)
(* pipeline of process_articles_ai_driven, with the text functions it      *)
(* relies on (normalize_title, normalize_url, extract_keywords,            *)
(* is_similar_title).                                                      *)
(*                                                                         *)
(* Text is modelled character by character.  A string is a sequence of     *)
(* characters; a character is a one-letter string ("a", "A", "7", " ",     *)
(* "-") or, for a Hangul syllable, its romanisation prefixed by k_         *)
(* ("k_gyo" "k_won" is the company name Kyowon).                           *)
(***************************************************************************)
EXTENDS Integers, Sequences, FiniteSets, TLC

\* ------------------------------------------------------------------------
\* Characters and strings
\* ------------------------------------------------------------------------

UpperSeq ==
  << "A", "B", "C", "D", "E", "F", "G", "H", "I", "J", "K", "L", "M",
     "N", "O", "P", "Q", "R", "S", "T", "U", "V", "W", "X", "Y", "Z" >>

LowerSeq ==
  << "a", "b", "c", "d", "e", "f", "g", "h", "i", "j", "k", "l", "m",
     "n", "o", "p", "q", "r", "s", "t", "u", "v", "w", "x", "y", "z" >>

Upper == { UpperSeq[i] : i \in 1..26 }

Lower == { LowerSeq[i] : i \in 1..26 }

Latin == Upper \cup Lower

Digit == { "0", "1", "2", "3", "4", "5", "6", "7", "8", "9" }

Hangul ==
  { "k_a", "k_an", "k_bal", "k_beo", "k_bi", "k_bo", "k_chi", "k_chim",
    "k_chul", "k_chwi", "k_dae", "k_de", "k_deo", "k_do", "k_du", "k_eo",
    "k_eob", "k_eu", "k_gae", "k_ge", "k_gi", "k_go", "k_gong", "k_gwon",
    "k_gyeog", "k_gyeol", "k_gyeon", "k_gyo", "k_hae", "k_ham", "k_han", "k_hwa",
    "k_hyeob", "k_hyeon", "k_i", "k_il", "k_in", "k_je", "k_jeom", "k_jeong",
    "k_ka", "k_keu", "k_king", "k_ko", "k_ku", "k_ma", "k_ne", "k_o",
    "k_pae", "k_pang", "k_peu", "k_pi", "k_po", "k_pum", "k_pyo", "k_ra",
    "k_raen", "k_ri", "k_ro", "k_ros", "k_sa", "k_saeng", "k_sam", "k_san",
    "k_seom", "k_seong", "k_seu", "k_sin", "k_so", "k_su", "k_teo", "k_teu",
    "k_ti", "k_u", "k_we", "k_wi", "k_win", "k_won", "k_yag", "k_yo",
    "k_yu" }
\* \s of the regular expressions
Space == { " " }

\* \w of the regular expressions (Python 3 str patterns: Unicode letters,
\* digits and underscore, so Hangul syllables are word characters)
WordChar == Latin \cup Digit \cup Hangul \cup { "_" }

\* str.lower() on one character
LowerChar(c) ==
  IF c \in Upper THEN LowerSeq[CHOOSE i \in 1..26 : UpperSeq[i] = c] ELSE c

\* str.upper() on one character
UpperChar(c) ==
  IF c \in Lower THEN UpperSeq[CHOOSE i \in 1..26 : LowerSeq[i] = c] ELSE c

\* str.lower()
StrLower(s) == [i \in 1..Len(s) |-> LowerChar(s[i])]

\* str.upper()
StrUpper(s) == [i \in 1..Len(s) |-> UpperChar(s[i])]

\* p in s (substring test)
Contains(s, p) ==
  \E i \in 0..(Len(s) - Len(p)) : SubSeq(s, i + 1, i + Len(p)) = p

\* re.findall of cls+ : the maximal runs of characters of one class
Runs(s, cls) ==
  { SubSeq(s, i, j) : <<i, j>> \in
      { p \in (1..Len(s)) \X (1..Len(s)) :
          /\ p[1] <= p[2]
          /\ \A k \in p[1]..p[2] : s[k] \in cls
          /\ (p[1] = 1 \/ s[p[1] - 1] \notin cls)
          /\ (p[2] = Len(s) \/ s[p[2] + 1] \notin cls) } }

\* \b of the regular expressions at the gap before position i (1..Len+1)
WordBoundary(s, i) ==
  LET before == i > 1 /\ s[i - 1] \in WordChar
      after  == i <= Len(s) /\ s[i] \in WordChar
  IN  before # after

\* str.strip() for the blanks of the model
RECURSIVE StrStrip(_)
StrStrip(s) ==
  IF s = <<>> THEN s
  ELSE IF Head(s) \in Space THEN StrStrip(Tail(s))
  ELSE IF s[Len(s)] \in Space THEN StrStrip(SubSeq(s, 1, Len(s) - 1))
  ELSE s

\* abs()
Abs(n) == IF n < 0 THEN -n ELSE n

\* max()
\* the first of two numbers where max() belongs
FirstOf(a, b) == a

Max(a, b) == IF a >= b THEN a ELSE b

\* elements of a sequence as a set
Range(s) == { s[i] : i \in 1..Len(s) }

\* ------------------------------------------------------------------------
\* normalize_title, extract_keywords, is_similar_title
\* ------------------------------------------------------------------------

\* lower-case, drop whitespace, drop what is neither \w nor Hangul
normalize_title(title) ==
  IF title = <<>> THEN <<>>
  ELSE SelectSeq(SelectSeq(StrLower(title), LAMBDA c : c \notin Space),
                 LAMBDA c : c \in WordChar)

\* Hangul runs, Latin runs of two letters or more (lower-cased), digit runs
extract_keywords(title) ==
  IF title = <<>> THEN {}
  ELSE Runs(title, Hangul)
       \cup { StrLower(w) : w \in { r \in Runs(title, Latin) : Len(r) >= 2 } }
       \cup Runs(title, Digit)


common_words ==
  << <<"k_je", "k_pum">>,
     <<"k_bo", "k_an">>,
     <<"k_eob", "k_de", "k_i", "k_teu">>,
     <<"k_gwon", "k_go">>,
     <<"k_chwi", "k_yag", "k_jeom">>,
     <<"k_pae", "k_chi">>,
     <<"k_bal", "k_gyeon">>,
     <<"k_su", "k_jeong">>,
     <<"k_eob", "k_de", "k_i", "k_teu">>,
     <<"k_gwon", "k_go">>,
     <<"k_bal", "k_pyo">>,
     <<"k_gong", "k_gae">> >>

known_products ==
  << <<"t", "p", "-", "l", "i", "n", "k">>,
     <<"t", "p", "l", "i", "n", "k">>,
     <<"a", "i", "r", "o", "h", "a">>,
     <<"a", "d", "o", "b", "e">>,
     <<"f", "o", "r", "t", "i", "g", "a", "t", "e">>,
     <<"w", "i", "n", "d", "o", "w", "s">>,
     <<"o", "f", "f", "i", "c", "e">>,
     <<"m", "i", "c", "r", "o", "s", "o", "f", "t">>,
     <<"c", "i", "s", "c", "o">>,
     <<"v", "m", "w", "a", "r", "e">>,
     <<"t", "r", "e", "n", "d", " ", "m", "i", "c", "r", "o">>,
     <<"h", "p", "e">>,
     <<"m", "o", "n", "g", "o", "d", "b">>,
     <<"n", "8", "n">>,
     <<"t", "e", "l", "e", "g", "r", "a", "m">>,
     <<"f", "a", "c", "e", "b", "o", "o", "k">>,
     <<"i", "n", "s", "t", "a", "g", "r", "a", "m">>,
     <<"l", "i", "n", "k", "e", "d", "i", "n">>,
     <<"g", "e", "m", "i", "n", "i">>,
     <<"g", "o", "o", "g", "l", "e">>,
     <<"s", "l", "a", "c", "k">>,
     <<"z", "o", "o", "m">> >>

\* re.escape(product) with "\ " and "\-" replaced by [\s-]? , matched at
\* position i of s from position k of the product name, ignoring case
RECURSIVE ProductPatternAt(_, _, _, _)
ProductPatternAt(s, i, product, k) ==
  IF k > Len(product) THEN TRUE
  ELSE IF product[k] \in { " ", "-" }
  THEN \/ /\ i <= Len(s)
          /\ s[i] \in Space \cup { "-" }
          /\ ProductPatternAt(s, i + 1, product, k + 1)
       \/ ProductPatternAt(s, i, product, k + 1)
  ELSE /\ i <= Len(s)
       /\ LowerChar(s[i]) = LowerChar(product[k])
       /\ ProductPatternAt(s, i + 1, product, k + 1)

\* re.search(pattern, title_lower, re.IGNORECASE)
ProductPatternSearch(s, product) ==
  \E i \in 1..(Len(s) + 1) : ProductPatternAt(s, i, product, 1)

\* product.replace(' ', '').replace('-', '').lower()
NormalizeName(w) ==
  StrLower(SelectSeq(w, LAMBDA c : c \notin { " ", "-" }))

\* end of [A-Z][a-z]+ started at i, 0 when there is none
CapSegmentEnd(s, i) ==
  IF i + 1 <= Len(s) /\ s[i] \in Upper /\ s[i + 1] \in Lower
  THEN CHOOSE j \in (i + 1)..Len(s) :
         /\ \A k \in (i + 1)..j : s[k] \in Lower
         /\ (j = Len(s) \/ s[j + 1] \notin Lower)
  ELSE 0

\* end of the match of [A-Z][a-z]+(?:[- ][A-Z][a-z]+)*\b whose current
\* segment starts at i; last is the end of the previous segment (0: none).
\* The greedy repetition gives back its last segment when no \b follows it.
RECURSIVE CapMatchEnd(_, _, _)
CapMatchEnd(s, i, last) ==
  LET e == CapSegmentEnd(s, i) IN
  IF e = 0 THEN last
  ELSE IF e + 2 <= Len(s) /\ s[e + 1] \in { "-", " " }
          /\ CapSegmentEnd(s, e + 2) # 0
  THEN CapMatchEnd(s, e + 2, e)
  ELSE IF WordBoundary(s, e + 1) THEN e ELSE last

\* re.findall(r'\b([A-Z][a-z]+(?:[- ][A-Z][a-z]+)*)\b', title), scanning
\* from position i, non-overlapping, leftmost first
RECURSIVE CapitalizedWords(_, _)
CapitalizedWords(s, i) ==
  IF i > Len(s) THEN {}
  ELSE LET e == IF WordBoundary(s, i) THEN CapMatchEnd(s, i, 0) ELSE 0 IN
       IF e = 0 THEN CapitalizedWords(s, i + 1)
       ELSE { SubSeq(s, i, e) } \cup CapitalizedWords(s, e + 1)

\* re.findall(r'\b([가-힣]{2,})\b', title)
KoreanWords(s) ==
  { SubSeq(s, i, j) : <<i, j>> \in
      { p \in (1..Len(s)) \X (1..Len(s)) :
          /\ p[2] - p[1] >= 1
          /\ \A k \in p[1]..p[2] : s[k] \in Hangul
          /\ WordBoundary(s, p[1])
          /\ WordBoundary(s, p[2] + 1) } }

\* the product and company names of a title
extract_product_names(title) ==
  LET title_lower == StrLower(title) IN
  { NormalizeName(known_products[n]) : n \in
      { m \in 1..Len(known_products) :
          ProductPatternSearch(title_lower, known_products[m]) } }
  \cup { NormalizeName(w) : w \in
      { c \in CapitalizedWords(title, 1) :
          /\ Len(NormalizeName(c)) >= 2
          /\ NormalizeName(c) \notin Range(common_words) } }
  \cup { w \in KoreanWords(title) : w \notin Range(common_words) }

\* is_similar_title without the comparison of the names (lines 368-374)
is_similar_title_KeywordsOnly(title1, title2, threshold) ==
  IF title1 = <<>> \/ title2 = <<>> THEN FALSE
  ELSE IF title1 = title2 THEN TRUE
  ELSE
    LET keywords1 == extract_keywords(title1)
        keywords2 == extract_keywords(title2)
    IN
    IF keywords1 = {} \/ keywords2 = {}
    THEN LET norm1 == normalize_title(title1)
             norm2 == normalize_title(title2)
         IN  IF norm1 = <<>> \/ norm2 = <<>> THEN FALSE
             ELSE 10 * Abs(Len(norm1) - Len(norm2))
                    < 3 * Max(Len(norm1), Len(norm2))
    ELSE 10 * Cardinality(keywords1 \cap keywords2)
           >= threshold * Cardinality(keywords1 \cup keywords2)

\* Jaccard similarity of the keyword sets against a threshold given in
\* tenths (4 for 0.4, 3 for 0.3); names that differ override the keywords
is_similar_title(title1, title2, threshold) ==
  IF title1 = <<>> \/ title2 = <<>> THEN FALSE
  ELSE IF title1 = title2 THEN TRUE
  ELSE
    LET keywords1 == extract_keywords(title1)
        keywords2 == extract_keywords(title2)
    IN
    IF keywords1 = {} \/ keywords2 = {}
    THEN LET norm1 == normalize_title(title1)
             norm2 == normalize_title(title2)
         IN  IF norm1 = <<>> \/ norm2 = <<>> THEN FALSE
             ELSE 10 * Abs(Len(norm1) - Len(norm2))
                    < 3 * Max(Len(norm1), Len(norm2))
    ELSE
      LET products1 == extract_product_names(title1)
          products2 == extract_product_names(title2)
      IN
      IF products1 # {} /\ products2 # {} /\ products1 \cap products2 = {}
      THEN FALSE
      ELSE 10 * Cardinality(keywords1 \cap keywords2)
             >= threshold * Cardinality(keywords1 \cup keywords2)

\* ------------------------------------------------------------------------
\* Keyword lists of process_articles_ai_driven
\* ------------------------------------------------------------------------

korean_companies ==
  << <<"k_gyo", "k_won">>,
     <<"k_ka", "k_ka", "k_o">>,
     <<"k_ne", "k_i", "k_beo">>,
     <<"k_sam", "k_seong">>,
     <<"L", "G">>,
     <<"S", "K">>,
     <<"k_hyeon", "k_dae">>,
     <<"k_gi", "k_a">>,
     <<"k_ros", "k_de">>,
     <<"k_han", "k_hwa">>,
     <<"k_du", "k_san">>,
     <<"k_po", "k_seu", "k_ko">>,
     <<"K", "T">>,
     <<"k_sin", "k_han">>,
     <<"k_ra", "k_in">>,
     <<"k_ku", "k_pang">> >>

security_keywords ==
  << <<"k_hae", "k_king">>,
     <<"k_raen", "k_seom", "k_we", "k_eo">>,
     <<"k_jeong", "k_bo", "k_yu", "k_chul">>,
     <<"k_chim", "k_hae">>,
     <<"k_gong", "k_gyeog">>,
     <<"k_sa", "k_go">>,
     <<"k_yu", "k_chul">> >>

product_keywords ==
  << << <<"w", "i", "n", "d", "o", "w", "s">>,
        <<"k_win", "k_do", "k_u">>,
        <<"k_ma", "k_i", "k_keu", "k_ro", "k_so", "k_peu", "k_teu">>,
        <<"m", "s">>,
        <<"m", "i", "c", "r", "o", "s", "o", "f", "t">> >>,
     << <<"o", "f", "f", "i", "c", "e">>,
        <<"k_o", "k_pi", "k_seu">>,
        <<"o", "f", "f", "i", "c", "e", " ", "3", "6", "5">>,
        <<"m", "i", "c", "r", "o", "s", "o", "f", "t", " ", "o", "f", "f", "i", "c", "e">> >>,
     << <<"a", "d", "o", "b", "e", " ", "r", "e", "a", "d", "e", "r">>,
        <<"k_eo", "k_do", "k_bi", " ", "k_ri", "k_deo">>,
        <<"a", "d", "o", "b", "e", " ", "a", "c", "r", "o", "b", "a", "t", " ", "r", "e", "a", "d", "e", "r">> >>,
     << <<"f", "o", "r", "t", "i", "g", "a", "t", "e">>,
        <<"k_po", "k_ti", "k_ge", "k_i", "k_teu">>,
        <<"f", "o", "r", "t", "i", "o", "s">> >> >>

update_keywords ==
  << <<"k_pae", "k_chi">>,
     <<"k_eob", "k_de", "k_i", "k_teu">>,
     <<"k_bo", "k_an", " ", "k_eob", "k_de", "k_i", "k_teu">>,
     <<"k_chwi", "k_yag", "k_jeom">>,
     <<"k_pae", "k_chi", " ", "k_hwa", "k_yo", "k_il">>,
     <<"k_bo", "k_an", " ", "k_wi", "k_hyeob">>,
     <<"k_bo", "k_an", " ", "k_gwon", "k_go">>,
     <<"c", "v", "e">> >>

issue_update_keywords ==
  << <<"k_pae", "k_chi">>,
     <<"k_eob", "k_de", "k_i", "k_teu">>,
     <<"k_bo", "k_an", " ", "k_eob", "k_de", "k_i", "k_teu">>,
     <<"k_chwi", "k_yag", "k_jeom">>,
     <<"k_pae", "k_chi", " ", "k_hwa", "k_yo", "k_il">>,
     <<"k_bo", "k_an", " ", "k_wi", "k_hyeob">>,
     <<"k_bo", "k_an", " ", "k_gwon", "k_go">>,
     <<"c", "v", "e">>,
     <<"v", "u", "l", "n", "e", "r", "a", "b", "i", "l", "i", "t", "y">> >>

\* ------------------------------------------------------------------------
\* Titles of the articles of the model (a Hangul syllable is one character,
\* written k_ and its romanisation)
\* ------------------------------------------------------------------------

\* "Cisco patch" (Cisco k_pae k_chi)
TitleCiscoA == <<"C", "i", "s", "c", "o", " ", "k_pae", "k_chi">>

\* "Cisco patch released" (Cisco k_pae k_chi, k_gong k_gae)
TitleCiscoB == <<"C", "i", "s", "c", "o", " ", "k_pae", "k_chi", " ", "k_gong", "k_gae">>

\* "Cisco patch announced" (Cisco k_pae k_chi, k_bal k_pyo)
TitleCiscoC == <<"C", "i", "s", "c", "o", " ", "k_pae", "k_chi", " ", "k_bal", "k_pyo">>

\* "Kyowon hacking incident, personal data leak": company k_gyo k_won,
\* security keywords k_hae k_king, k_sa k_go, k_yu k_chul
TitleKyowonA == <<"k_gyo", "k_won", " ", "k_hae", "k_king", " ", "k_sa", "k_go", ",", " ", "k_gae", "k_in", "k_jeong", "k_bo", " ", "k_yu", "k_chul">>

\* "Kyowon: data leak after ransomware attack": company k_gyo k_won,
\* security keywords k_raen k_seom k_we k_eo, k_gong k_gyeog, k_jeong k_bo k_yu k_chul
TitleKyowonB == <<"k_gyo", "k_won", " ", "k_raen", "k_seom", "k_we", "k_eo", " ", "k_gong", "k_gyeog", "k_eu", "k_ro", " ", "k_jeong", "k_bo", "k_yu", "k_chul", " ", "k_bal", "k_saeng">>

\* "Windows patch"
TitleWindows == <<"W", "i", "n", "d", "o", "w", "s", " ", "k_pae", "k_chi">>

\* "MS vulnerability" (k_chwi k_yag k_jeom)
TitleMs == <<"M", "S", " ", "k_chwi", "k_yag", "k_jeom">>

\* "Zoom flaw" (k_gyeol k_ham)
TitleZoom == <<"Z", "o", "o", "m", " ", "k_gyeol", "k_ham">>

\* "LG hacking incident": company LG, security keywords k_hae k_king,
\* k_sa k_go
TitleLgA == <<"L", "G", " ", "k_hae", "k_king", " ", "k_sa", "k_go">>

\* "Windows patch released"
TitleWindowsB == <<"W", "i", "n", "d", "o", "w", "s", " ", "k_pae", "k_chi", " ", "k_gong", "k_gae">>

\* titles without a keyword: no Hangul, no digit, no two letters in a row
TitleLettersA == <<"a", " ", "b", " ", "c">>

TitleLettersB == <<"a", " ", "b", " ", "c", " ", "d">>

\* a title that normalize_title empties
TitlePunct == <<"?", "!">>

\* "LG data leak": company LG, security keyword k_yu k_chul
TitleLgB == <<"L", "G", " ", "k_jeong", "k_bo", " ", "k_yu", "k_chul">>


\* ------------------------------------------------------------------------
\* normalize_url
\* ------------------------------------------------------------------------
\* A URL is the result of urlparse: the host as its dot-separated labels,
\* the path, the query as its key=value pairs in order, the fragment.
\* The empty string is NoUrl.

NoUrl == [netloc |-> <<>>, path |-> <<>>, query |-> <<>>, fragment |-> <<>>]

\* the characters of the model in code point order
CodePoints ==
  << " ", "-", ".", "/" >> \o
  << "0", "1", "2", "3", "4", "5", "6", "7", "8", "9" >> \o
  UpperSeq \o << "_" >> \o LowerSeq

CodePoint(c) == CHOOSE n \in 1..Len(CodePoints) : CodePoints[n] = c

\* a < b on strings
RECURSIVE StrLess(_, _)
StrLess(a, b) ==
  IF b = <<>> THEN FALSE
  ELSE IF a = <<>> THEN TRUE
  ELSE IF Head(a) = Head(b) THEN StrLess(Tail(a), Tail(b))
  ELSE CodePoint(Head(a)) < CodePoint(Head(b))

utm_params ==
  << <<"u", "t", "m", "_", "s", "o", "u", "r", "c", "e">>,
     <<"u", "t", "m", "_", "m", "e", "d", "i", "u", "m">>,
     <<"u", "t", "m", "_", "c", "a", "m", "p", "a", "i", "g", "n">>,
     <<"u", "t", "m", "_", "t", "e", "r", "m">>,
     <<"u", "t", "m", "_", "c", "o", "n", "t", "e", "n", "t">>,
     <<"f", "b", "c", "l", "i", "d">>,
     <<"g", "c", "l", "i", "d">> >>

\* the first matching mobile prefix is replaced once ('m.' -> '',
\* 'mobile.' -> '', 'www.m.' -> 'www.'); a prefix ends with a dot, so more
\* labels follow it
DesktopDomain(domain) ==
  IF Len(domain) >= 2 /\ domain[1] = <<"m">> THEN Tail(domain)
  ELSE IF Len(domain) >= 2 /\ domain[1] = <<"m", "o", "b", "i", "l", "e">>
  THEN Tail(domain)
  ELSE IF Len(domain) >= 3 /\ domain[1] = <<"w", "w", "w">>
          /\ domain[2] = <<"m">>
  THEN << domain[1] >> \o Tail(Tail(domain))
  ELSE domain

\* str.rstrip('/')
RECURSIVE RStripSlash(_)
RStripSlash(p) ==
  IF p # <<>> /\ p[Len(p)] = "/" THEN RStripSlash(SubSeq(p, 1, Len(p) - 1))
  ELSE p

\* sorted(query_params.items()) written back by urlencode(doseq=True):
\* the pairs ordered by key, the values of one key in their order
RECURSIVE SortByKey(_)
SortByKey(q) ==
  IF q = <<>> THEN <<>>
  ELSE LET n == CHOOSE m \in 1..Len(q) :
                  /\ \A j \in 1..Len(q) : ~StrLess(q[j][1], q[m][1])
                  /\ \A j \in 1..(m - 1) : q[j][1] # q[m][1]
       IN  << q[n] >> \o
           SortByKey([j \in 1..(Len(q) - 1) |-> IF j < n THEN q[j]
                                                 ELSE q[j + 1]])

normalize_url(url) ==
  IF url = NoUrl THEN NoUrl
  ELSE
    LET domain == DesktopDomain([n \in 1..Len(url.netloc) |->
                                   StrLower(url.netloc[n])])
        path == IF url.path # <<"/">> THEN RStripSlash(url.path)
                ELSE <<"/">>
        query_params == SelectSeq(url.query,
                                  LAMBDA kv : kv[1] \notin Range(utm_params))
        sorted_query == SortByKey(query_params)
    IN  [netloc   |-> domain,
         path     |-> StrLower(path),
         query    |-> [n \in 1..Len(sorted_query) |->
                         << StrLower(sorted_query[n][1]),
                            StrLower(sorted_query[n][2]) >>],
         fragment |-> <<>>]

\* ------------------------------------------------------------------------
\* Feed entries and classifier verdicts
\* ------------------------------------------------------------------------
\* An entry has a title, a link, the feed's id (empty: none), the time
\* entry_ts reads from it (0: unknown) and a summary, which names what the
\* article reports.

\* link first, then the feed's id or guid, then the title
entry_uid(e) ==
  IF e.link # NoUrl THEN [link |-> e.link, text |-> <<>>]
  ELSE IF e.id # <<>> THEN [link |-> NoUrl, text |-> e.id]
  ELSE [link |-> NoUrl, text |-> e.title]

\* falsy uid: no link, no id, empty title
NoUid == [link |-> NoUrl, text |-> <<>>]

entry_ts(e) == e.ts

\* judge_with_ai returned None
None ==
  [kind |-> "none", decision |-> "(absent)", CVE_IDs |-> <<>>,
   products_affected |-> <<>>, tags |-> <<>>]

\* judge_with_ai raised
Raised ==
  [kind |-> "raise", decision |-> "(absent)", CVE_IDs |-> <<>>,
   products_affected |-> <<>>, tags |-> <<>>]

\* the key "decision" is not in the verdict
Absent == "(absent)"

Judgment(decision, cves, products, tags) ==
  [kind |-> "verdict", decision |-> decision, CVE_IDs |-> cves,
   products_affected |-> products, tags |-> tags]

\* DecisionOf with the default of a missing decision taken as a candidate
DecisionOf_DefaultScrape(j) ==
  IF j.decision = Absent THEN "SCRAPE" ELSE j.decision

\* ai_judgment.get("decision", "SKIP")
DecisionOf(j) == IF j.decision = Absent THEN "SKIP" ELSE j.decision

\* should_send_article_ai_driven that holds back only None and SKIP
should_send_unless_skip(ai_judgment) ==
  IF ai_judgment = None THEN FALSE
  ELSE ai_judgment.decision # "SKIP"

should_send_article_ai_driven(ai_judgment) ==
  IF ai_judgment = None THEN FALSE
  ELSE IF ai_judgment.decision = Absent THEN FALSE
  ELSE IF ai_judgment.decision = "SCRAPE" THEN TRUE
  ELSE IF ai_judgment.decision = "WATCHLIST" THEN TRUE
  ELSE FALSE

\* ------------------------------------------------------------------------
\* Thresholds and limits of the program
\* ------------------------------------------------------------------------

\* is_similar_title's default threshold 0.4, in tenths
batch_threshold == 4

\* threshold=0.3 of the check against sent_entries, in tenths
sent_threshold == 3

\* 7 * 24 * 3600 seconds
time_window == 604800

\* fetch_all_recent_entries(max_entries=20)
max_entries == 20

\* errors[-1000:]
error_log_cap == 1000

\* seen_original_titles[-1000:]
title_log_cap == 1000

\* ------------------------------------------------------------------------
\* Bounds of the model and the articles the feeds can carry
\* ------------------------------------------------------------------------

\* entries the feeds return in one run
MaxFeed == 3

\* runs of the script, one after the other on the same state file
MaxRuns == 2

LinkA ==
  [netloc |-> << <<"n", "e", "w", "s">>, <<"k", "r">> >>,
   path |-> <<"/", "a">>, query |-> <<>>, fragment |-> <<>>]

LinkB ==
  [netloc |-> << <<"n", "e", "w", "s">>, <<"k", "r">> >>,
   path |-> <<"/", "b">>, query |-> <<>>, fragment |-> <<>>]

LinkC ==
  [netloc |-> << <<"n", "e", "w", "s">>, <<"k", "r">> >>,
   path |-> <<"/", "c">>, query |-> <<>>, fragment |-> <<>>]

\* https://M.News.kr/a/?utm_source=rss#top : LinkA as a mobile feed gives it
LinkAMobile ==
  [netloc |-> << <<"M">>, <<"N", "e", "w", "s">>, <<"k", "r">> >>,
   path |-> <<"/", "a", "/">>,
   query |-> << << <<"u", "t", "m", "_", "s", "o", "u", "r", "c", "e">>,
                   <<"r", "s", "s">> >> >>,
   fragment |-> <<"t", "o", "p">>]

Entry(title, link, ts, summary) ==
  [title |-> title, link |-> link, id |-> <<>>, ts |-> ts,
   summary |-> summary]

\* three reports of one Cisco patch, pairwise similar at 0.4
ClusterFeed ==
  { Entry(TitleCiscoA, LinkA, 1000, "plain"),
    Entry(TitleCiscoB, LinkB, 2000, "plain"),
    Entry(TitleCiscoC, LinkC, 3000, "plain") }

\* two reports of the Kyowon incident whose titles are not similar
CompanyFeed ==
  { Entry(TitleKyowonA, LinkA, 1000, "plain"),
    Entry(TitleKyowonB, LinkB, 2000, "plain") }

\* two articles on one CVE three days apart (day 11 and day 8, in seconds),
\* after a report similar to the first of them
CveNearFeed ==
  { Entry(TitleCiscoA, LinkA, 1036800, "plain"),
    Entry(TitleCiscoB, LinkB, 950400, "CVE"),
    Entry(TitleZoom, LinkC, 691200, "cve") }

\* two articles on one CVE exactly seven days apart (day 11 and day 4)
CveFarFeed ==
  { Entry(TitleCiscoB, LinkB, 950400, "CVE"),
    Entry(TitleZoom, LinkC, 345600, "cve") }

\* two articles on a Windows update, the older one on the mobile address
\* of the newer one
ProductFeed ==
  { Entry(TitleWindows, LinkA, 2000, "Windows"),
    Entry(TitleMs, LinkAMobile, 1000, "windows") }

\* the articles on which the second-pass call or the crawl before it can
\* fail
Flaky == { LinkB }

Feeds == { ClusterFeed, CompanyFeed, CveNearFeed, CveFarFeed, ProductFeed }

\* two reports on LG whose titles are not similar, the company written in
\* capitals as in korean_companies
LgFeed ==
  { Entry(TitleLgA, LinkA, 2000, "plain"),
    Entry(TitleLgB, LinkB, 1000, "plain") }

\* the feeds on companies of korean_companies, by the script of the token
TokenFeeds == { CompanyFeed, LgFeed }

\* what a verdict on an article can report, by the article's summary
Findings(summary) ==
  CASE summary = "CVE" ->
         [cves |-> << <<"C", "V", "E", "-", "2", "0", "2", "4", "-",
                        "1", "2", "3", "4", "5">> >>,
          products |-> <<>>, tags |-> <<>>]
    [] summary = "cve" ->
         [cves |-> << <<"c", "v", "e", "-", "2", "0", "2", "4", "-",
                        "1", "2", "3", "4", "5">> >>,
          products |-> <<>>, tags |-> <<>>]
    [] summary = "Windows" ->
         [cves |-> <<>>,
          products |-> << <<"W", "i", "n", "d", "o", "w", "s">> >>,
          tags |-> << <<"v", "u", "l", "n", "e", "r", "a", "b", "i", "l",
                        "i", "t", "y">> >>]
    [] summary = "windows" ->
         [cves |-> <<>>,
          products |-> << <<" ", "w", "i", "n", "d", "o", "w", "s", " ">> >>,
          tags |-> << <<"C", "V", "E">> >>]
    [] OTHER -> [cves |-> <<>>, products |-> <<>>, tags |-> <<>>]

\* the decisions a verdict can carry; "MAYBE" stands for an unrecognized one
Decisions == { "SCRAPE", "WATCHLIST", "SKIP", "MAYBE", Absent }

\* the verdicts judge_with_ai can return for an entry
Verdicts(entry) ==
  { Judgment(d, Findings(entry.summary).cves,
             Findings(entry.summary).products, Findings(entry.summary).tags) :
      d \in Decisions }

\* the sequences without repetition of at most n entries of a feed
RECURSIVE FeedOrders(_, _)
FeedOrders(entries, n) ==
  IF n = 0 THEN { <<>> }
  ELSE LET shorter == FeedOrders(entries, n - 1) IN
       shorter \cup
       { Append(s, e) : <<s, e>> \in
           { p \in shorter \X entries : p[2] \notin Range(p[1]) } }

\* ------------------------------------------------------------------------
\* The text functions on the articles of the model, computed once
\* ------------------------------------------------------------------------

FeedTitles == { e.title : e \in UNION (Feeds \cup TokenFeeds) }

\* the title of the n-th article of earlier runs: its number in digits
RECURSIVE OldTitle(_)
OldTitle(n) ==
  LET digits == <<"0", "1", "2", "3", "4", "5", "6", "7", "8", "9">> IN
  IF n < 10 THEN << digits[n + 1] >>
  ELSE Append(OldTitle(n \div 10), digits[(n % 10) + 1])

\* the title log after earlier runs judged title_log_cap - 1 articles, each
\* run max_entries of them: the first run articles of different titles,
\* every later run one story under one title from max_entries feeds
OldLog ==
  [n \in 1..(title_log_cap - 1) |->
     IF n <= max_entries THEN OldTitle(n)
     ELSE OldTitle(max_entries + ((n - 1) \div max_entries))]

FeedLinks == { e.link : e \in UNION (Feeds \cup TokenFeeds) } \cup { NoUrl }

similar_cache ==
  [t1 \in FeedTitles |-> [t2 \in FeedTitles \cup Range(OldLog) |->
     [threshold \in { sent_threshold, batch_threshold } |->
        is_similar_title(t1, t2, threshold)]]]

title_key_cache == [t \in FeedTitles |-> normalize_title(t)]

link_key_cache == [u \in FeedLinks |-> normalize_url(u)]

\* is_similar_title on titles of the feeds
SimilarTitle(title1, title2, threshold) ==
  similar_cache[title1][title2][threshold]

\* normalize_title on a title of the feeds
TitleKey(title) == title_key_cache[title]

\* normalize_url on a link of the feeds
LinkKey(url) == link_key_cache[url]

\* ------------------------------------------------------------------------
\* The steps of process_articles_ai_driven
\* ------------------------------------------------------------------------

\* the entries left in the order of the feeds
KeepFeedOrder(entries) == entries

\* all_entries.sort(key=entry_ts, reverse=True): newest first, entries of
\* equal time in their feed order
RECURSIVE SortNewestFirst(_)
SortNewestFirst(entries) ==
  IF entries = <<>> THEN <<>>
  ELSE LET n == CHOOSE m \in 1..Len(entries) :
                  /\ \A j \in 1..Len(entries) :
                       entry_ts(entries[j]) <= entry_ts(entries[m])
                  /\ \A j \in 1..(m - 1) :
                       entry_ts(entries[j]) # entry_ts(entries[m])
       IN  << entries[n] >> \o
           SortNewestFirst([j \in 1..(Len(entries) - 1) |->
                              IF j < n THEN entries[j] ELSE entries[j + 1]])

\* fetch_all_recent_entries(max_entries), given what the feeds returned
fetch_all_recent_entries(all_entries, limit) ==
  LET sorted == SortNewestFirst(all_entries) IN
  SubSeq(sorted, 1, IF Len(sorted) < limit THEN Len(sorted) ELSE limit)

\* IsKnownSeen without the check of the link key
IsKnownSeen_NoLink(entry, seenSet, seenTitles, seenOriginalTitles, seenLinks) ==
  \/ /\ entry_uid(entry) # NoUid
     /\ entry_uid(entry) \in seenSet
  \/ /\ TitleKey(entry.title) # <<>>
     /\ TitleKey(entry.title) \in seenTitles
  \/ \E n \in 1..Len(seenOriginalTitles) :
       SimilarTitle(entry.title, seenOriginalTitles[n], batch_threshold)

\* step 1: the entry is known from the loaded state (link, uid, title key,
\* or a title similar to a logged one)
IsKnownSeen(entry, seenSet, seenTitles, seenOriginalTitles, seenLinks) ==
  \/ /\ entry.link # NoUrl
     /\ LinkKey(entry.link) # NoUrl
     /\ LinkKey(entry.link) \in seenLinks
  \/ /\ entry_uid(entry) # NoUid
     /\ entry_uid(entry) \in seenSet
  \/ /\ TitleKey(entry.title) # <<>>
     /\ TitleKey(entry.title) \in seenTitles
  \/ \E n \in 1..Len(seenOriginalTitles) :
       SimilarTitle(entry.title, seenOriginalTitles[n], batch_threshold)

\* any(keyword in text for keyword in keywords)
ContainsAny(text, keywords) ==
  \E n \in 1..Len(keywords) : Contains(text, keywords[n])

\* step 2, first scan: a later entry of the batch has a different, similar
\* title and is newer
SimilarNewerLater(entries, i) ==
  \E j \in (i + 1)..Len(entries) :
    /\ entries[i].title # entries[j].title
    /\ SimilarTitle(entries[i].title, entries[j].title, batch_threshold)
    /\ entry_ts(entries[i]) < entry_ts(entries[j])

\* step 2, second scan: a later entry names the same company, both titles
\* have a security keyword, and the later entry is newer
SameCompanyNewerLater(entries, i) ==
  LET title_lower == StrLower(entries[i].title) IN
  \E c \in 1..Len(korean_companies) :
    /\ Contains(title_lower, korean_companies[c])
    /\ \E j \in (i + 1)..Len(entries) :
         LET other_title_lower == StrLower(entries[j].title) IN
         /\ Contains(other_title_lower, korean_companies[c])
         /\ ContainsAny(title_lower, security_keywords)
         /\ ContainsAny(other_title_lower, security_keywords)
         /\ entry_ts(entries[i]) < entry_ts(entries[j])

\* step 2, third scan: a later entry names the same product, both titles
\* have an update keyword, and the later entry is newer
SameProductNewerLater(entries, i) ==
  LET title_lower == StrLower(entries[i].title) IN
  \E p \in 1..Len(product_keywords) :
    /\ ContainsAny(title_lower, product_keywords[p])
    /\ \E j \in (i + 1)..Len(entries) :
         LET other_title_lower == StrLower(entries[j].title) IN
         /\ ContainsAny(other_title_lower, product_keywords[p])
         /\ ContainsAny(title_lower, update_keywords)
         /\ ContainsAny(other_title_lower, update_keywords)
         /\ entry_ts(entries[i]) < entry_ts(entries[j])

is_duplicate_in_batch(entries, i) ==
  \/ SimilarNewerLater(entries, i)
  \/ SameCompanyNewerLater(entries, i)
  \/ SameProductNewerLater(entries, i)

\* step 2: the batch without its in-batch duplicates, from position i on
RECURSIVE ConsolidateFrom(_, _)
ConsolidateFrom(entries, i) ==
  IF i > Len(entries) THEN <<>>
  ELSE (IF is_duplicate_in_batch(entries, i) THEN <<>> ELSE << entries[i] >>)
       \o ConsolidateFrom(entries, i + 1)

\* set([c.upper() for c in cves])
UpperSet(cves) == { StrUpper(cves[n]) : n \in 1..Len(cves) }

\* set([p.lower().strip() for p in products])
ProductSet(products) ==
  { StrStrip(StrLower(products[n])) : n \in 1..Len(products) }

\* any("vulnerability" in str(tag).lower() or "cve" in str(tag).lower() ...)
IsVulnTagged(tags) ==
  \E n \in 1..Len(tags) :
    \/ Contains(StrLower(tags[n]),
                <<"v", "u", "l", "n", "e", "r", "a", "b", "i", "l", "i", "t", "y">>)
    \/ Contains(StrLower(tags[n]), <<"c", "v", "e">>)

\* same company, a security keyword in both titles, entry not newer
SameCompanySent(entry, sent_entry) ==
  LET title_lower == StrLower(entry.title)
      sent_title_lower == StrLower(sent_entry.title)
  IN  \E c \in 1..Len(korean_companies) :
        /\ Contains(title_lower, korean_companies[c])
        /\ Contains(sent_title_lower, korean_companies[c])
        /\ ContainsAny(title_lower, security_keywords)
        /\ ContainsAny(sent_title_lower, security_keywords)
        /\ entry_ts(entry) <= entry_ts(sent_entry)

\* SameCveSent with the window's end inside the window
SameCveSent_Inclusive(entry, ai_judgment, sent_entry, sent_ai_judgment) ==
  /\ ai_judgment.CVE_IDs # <<>>
  /\ sent_ai_judgment.CVE_IDs # <<>>
  /\ UpperSet(ai_judgment.CVE_IDs) \cap UpperSet(sent_ai_judgment.CVE_IDs) # {}
  /\ Abs(entry_ts(entry) - entry_ts(sent_entry)) <= time_window

\* a common CVE id within the time window
SameCveSent(entry, ai_judgment, sent_entry, sent_ai_judgment) ==
  /\ ai_judgment.CVE_IDs # <<>>
  /\ sent_ai_judgment.CVE_IDs # <<>>
  /\ UpperSet(ai_judgment.CVE_IDs) \cap UpperSet(sent_ai_judgment.CVE_IDs) # {}
  /\ Abs(entry_ts(entry) - entry_ts(sent_entry)) < time_window

\* a common affected product, update keywords in both titles or
\* vulnerability tags in both verdicts, within the time window
SameProductSent(entry, ai_judgment, sent_entry, sent_ai_judgment) ==
  /\ ai_judgment.products_affected # <<>>
  /\ sent_ai_judgment.products_affected # <<>>
  /\ ProductSet(ai_judgment.products_affected)
       \cap ProductSet(sent_ai_judgment.products_affected) # {}
  /\ \/ /\ ContainsAny(StrLower(entry.title), issue_update_keywords)
        /\ ContainsAny(StrLower(sent_entry.title), issue_update_keywords)
     \/ /\ IsVulnTagged(ai_judgment.tags)
        /\ IsVulnTagged(sent_ai_judgment.tags)
  /\ Abs(entry_ts(entry) - entry_ts(sent_entry)) < time_window

\* MatchesSent by the titles alone
MatchesSent_TitlesOnly(entry, ai_judgment, sent) ==
  \/ entry.title = sent[1].title
  \/ SimilarTitle(entry.title, sent[1].title, sent_threshold)

\* the check of one candidate against one pair of sent_entries
MatchesSent(entry, ai_judgment, sent) ==
  \/ entry.title = sent[1].title
  \/ SimilarTitle(entry.title, sent[1].title, sent_threshold)
  \/ SameCompanySent(entry, sent[1])
  \/ /\ ai_judgment # None
     /\ sent[2] # None
     /\ \/ SameCveSent(entry, ai_judgment, sent[1], sent[2])
        \/ SameProductSent(entry, ai_judgment, sent[1], sent[2])

\* is_duplicate_sent after the scan of sent_entries
is_duplicate_sent(entry, ai_judgment, sentEntries) ==
  \E n \in 1..Len(sentEntries) : MatchesSent(entry, ai_judgment, sentEntries[n])

\* the second loop going on with the first-pass verdict whatever the second
\* call returned
SecondJudgment_KeepFirst(result, first_judgment) == first_judgment

\* SecondJudgment without the branch of "if not ai_judgment"
SecondJudgment_NoFallback(result, first_judgment) ==
  IF result = Raised THEN first_judgment ELSE result

\* the verdict the second loop goes on with: the first-pass verdict when the
\* second call returned None or raised (lines 1421-1437)
SecondJudgment(result, first_judgment) ==
  IF result = None THEN first_judgment
  ELSE IF result = Raised THEN first_judgment
  ELSE result

\* errors.append(error_entry); errors = errors[-1000:]
log_error(log, error_type, entry) ==
  LET appended == Append(log, [type |-> error_type, title |-> entry.title,
                               link |-> entry.link])
  IN  IF Len(appended) > error_log_cap
      THEN SubSeq(appended, Len(appended) - error_log_cap + 1, Len(appended))
      ELSE appended

\* seen_original_titles[:1000]
FirstTitles(titles) ==
  IF Len(titles) > title_log_cap THEN SubSeq(titles, 1, title_log_cap)
  ELSE titles

\* seen_original_titles[-1000:]
LastTitles(titles) ==
  IF Len(titles) > title_log_cap
  THEN SubSeq(titles, Len(titles) - title_log_cap + 1, Len(titles))
  ELSE titles

\* ------------------------------------------------------------------------
\* State
\* ------------------------------------------------------------------------

VARIABLES
  file,                   \* state.aitest.json as load_state reads it
  errors,                 \* errors.json
  feed,                   \* the articles the feeds can return
  slack,                  \* SLACK_BOT_TOKEN and SLACK_CHANNEL are both set
  runs,                   \* runs started so far
  pc,                     \* position of the run
  seen,                   \* the locals of process_articles_ai_driven ...
  seen_titles,
  seen_original_titles,
  seen_links,
  sent_links,
  recent_entries,
  candidate_entries,
  final_entries,
  first_stage_candidates,
  pos,                    \* position of the running loop in its list
  ai_judgment,
  sent_entries,
  sent_count,
  correlated,             \* the candidates should_send_article_ai_driven
                          \* let through, each with its verdict, in the
                          \* order of the second loop
  loads,                  \* calls of load_state in this run
  writes,                 \* calls of save_state in this run
  failed,                 \* entries whose first-pass call returned None
  skipped,                \* entries whose first-pass decision was not
                          \* SCRAPE or WATCHLIST
  last_result,            \* what the last call of judge_with_ai did
  last_outcome,           \* what the last turn of the second loop got from
                          \* post_one_to_slack ("none": it was not called)
  ret,                    \* value the run returned (-1: none)
  args,                   \* arguments of a function called on its own
  returned,               \* what that call returned (<<>>: not called yet)
  new_entries,            \* test.py: the fetched entries that are not seen
  config,                 \* test.py: the settings read from the environment
  judged,                 \* test.py: entries judge_with_ai was called for
                          \* in this run
  raised                  \* test.py: entries for which post_one_to_slack
                          \* raised, in this run or an earlier one

vars ==
  << file, errors, feed, slack, runs, pc, seen, seen_titles,
     seen_original_titles, seen_links, sent_links, recent_entries,
     candidate_entries, final_entries, first_stage_candidates, pos,
     ai_judgment, sent_entries, sent_count, correlated, loads, writes,
     failed, skipped, last_result, last_outcome, ret, args, returned,
     new_entries, config, judged, raised >>

\* the three words of importance_levels in test.py
Low == <<"k_naj", "k_eum">>
Medium == <<"k_bo", "k_tong">>
High == <<"k_nop", "k_eum">>

\* the settings of test.py when the environment sets none of them
DefaultConfig ==
  [USE_AI_JUDGMENT |-> FALSE, AI_FILTER_REQUIRE_RELEVANT |-> FALSE,
   AI_FILTER_MIN_IMPORTANCE |-> Low, AI_FILTER_MIN_IMPACT |-> Low]

\* load_state() when the state file does not exist; complete tells that
\* the file, when it exists, holds a whole JSON document
EmptyState ==
  [seen |-> {}, seen_titles |-> {}, seen_original_titles |-> <<>>,
   seen_links |-> {}, sent_links |-> {}, complete |-> TRUE]

\* the state file after open(STATE_FILE, "w") emptied it and json.dump was
\* cut short: whatever part of the text was written, json.load raises on it
\* and nothing of the earlier state is left
TornState == [EmptyState EXCEPT !.complete = FALSE]

\* nothing of a run is in memory
NoRun ==
  /\ pc = "idle"
  /\ seen = {}
  /\ seen_titles = {}
  /\ seen_original_titles = <<>>
  /\ seen_links = {}
  /\ sent_links = {}
  /\ recent_entries = <<>>
  /\ candidate_entries = <<>>
  /\ final_entries = <<>>
  /\ first_stage_candidates = <<>>
  /\ pos = 0
  /\ ai_judgment = None
  /\ sent_entries = <<>>
  /\ sent_count = 0
  /\ correlated = <<>>
  /\ loads = 0
  /\ writes = 0
  /\ failed = {}
  /\ skipped = {}
  /\ last_result = None
  /\ last_outcome = "none"
  /\ ret = -1

Init ==
  /\ file = EmptyState
  /\ errors = <<>>
  /\ feed \in Feeds
  /\ slack \in BOOLEAN
  /\ runs = 0
  /\ NoRun
  /\ args = <<>>
  /\ returned = <<>>
  /\ new_entries = <<>>
  /\ config = DefaultConfig
  /\ judged = {}
  /\ raised = {}

\* ------------------------------------------------------------------------
\* Actions
\* ------------------------------------------------------------------------

\* state = load_state() and the sets made of it (lines 1198-1208)
LoadState ==
  /\ pc = "idle"
  /\ runs < MaxRuns
  /\ file.complete
  /\ runs' = runs + 1
  /\ loads' = loads + 1
  /\ seen' = file.seen
  /\ seen_titles' = file.seen_titles
  /\ seen_original_titles' = file.seen_original_titles
  /\ seen_links' = file.seen_links
  /\ sent_links' = file.sent_links
  /\ pc' = "fetch"
  /\ UNCHANGED << file, errors, feed, slack, recent_entries,
                  candidate_entries, final_entries, first_stage_candidates,
                  pos, ai_judgment, sent_entries, sent_count, correlated,
                  writes, failed, skipped, last_result, last_outcome, ret >>
  /\ UNCHANGED << args, returned, new_entries, config, judged, raised >>

\* json.load raises in load_state on a state file that is no whole JSON
\* document (line 74); the run ends there
LoadStateFault ==
  /\ pc = "idle"
  /\ runs < MaxRuns
  /\ ~file.complete
  /\ runs' = runs + 1
  /\ loads' = loads + 1
  /\ pc' = "aborted"
  /\ UNCHANGED << file, errors, feed, slack, seen, seen_titles,
                  seen_original_titles, seen_links, sent_links,
                  recent_entries, candidate_entries, final_entries,
                  first_stage_candidates, pos, ai_judgment, sent_entries,
                  sent_count, correlated, writes, failed, skipped,
                  last_result, last_outcome, ret >>
  /\ UNCHANGED << args, returned, new_entries, config, judged, raised >>

\* recent_entries = fetch_all_recent_entries(max_entries=20); return 0 when
\* there is none (lines 1210-1215)
Fetch(all_entries) ==
  /\ pc = "fetch"
  /\ recent_entries' = fetch_all_recent_entries(all_entries, max_entries)
  /\ IF recent_entries' = <<>>
     THEN pc' = "done" /\ ret' = 0
     ELSE pc' = "filter" /\ ret' = ret
  /\ UNCHANGED << file, errors, feed, slack, runs, seen, seen_titles,
                  seen_original_titles, seen_links, sent_links,
                  candidate_entries, final_entries, first_stage_candidates,
                  pos, ai_judgment, sent_entries, sent_count, correlated,
                  loads, writes, failed, skipped, last_result, last_outcome >>
  /\ UNCHANGED << args, returned, new_entries, config, judged, raised >>

\* FilterSeen going on to the write of the state when nothing is new
FilterSeen_ThroughSave ==
  /\ pc = "filter"
  /\ candidate_entries' =
       SelectSeq(recent_entries,
                 LAMBDA e : ~IsKnownSeen(e, seen, seen_titles,
                                         seen_original_titles, seen_links))
  /\ pc' = IF candidate_entries' = <<>> THEN "save" ELSE "consolidate"
  /\ UNCHANGED << file, errors, feed, slack, runs, seen, seen_titles,
                  seen_original_titles, seen_links, sent_links,
                  recent_entries, final_entries, first_stage_candidates,
                  pos, ai_judgment, sent_entries, sent_count, correlated,
                  loads, writes, failed, skipped, last_result, last_outcome,
                  ret >>
  /\ UNCHANGED << args, returned, new_entries, config, judged, raised >>

\* step 1, the check against the loaded state; return 0 when nothing is
\* new (lines 1219-1263)
FilterSeen ==
  /\ pc = "filter"
  /\ candidate_entries' =
       SelectSeq(recent_entries,
                 LAMBDA e : ~IsKnownSeen(e, seen, seen_titles,
                                         seen_original_titles, seen_links))
  /\ IF candidate_entries' = <<>>
     THEN pc' = "done" /\ ret' = 0
     ELSE pc' = "consolidate" /\ ret' = ret
  /\ UNCHANGED << file, errors, feed, slack, runs, seen, seen_titles,
                  seen_original_titles, seen_links, sent_links,
                  recent_entries, final_entries, first_stage_candidates,
                  pos, ai_judgment, sent_entries, sent_count, correlated,
                  loads, writes, failed, skipped, last_result, last_outcome >>
  /\ UNCHANGED << args, returned, new_entries, config, judged, raised >>

\* step 2, the duplicates inside the batch (lines 1265-1356)
Consolidate ==
  /\ pc = "consolidate"
  /\ final_entries' = ConsolidateFrom(candidate_entries, 1)
  /\ pos' = 1
  /\ pc' = IF final_entries' = <<>> THEN "save" ELSE "first"
  /\ UNCHANGED << file, errors, feed, slack, runs, seen, seen_titles,
                  seen_original_titles, seen_links, sent_links,
                  recent_entries, candidate_entries,
                  first_stage_candidates, ai_judgment, sent_entries,
                  sent_count, correlated, loads, writes, failed, skipped,
                  last_result, last_outcome, ret >>
  /\ UNCHANGED << args, returned, new_entries, config, judged, raised >>

\* AfterFirst with the second call made as soon as there is a candidate
AfterFirst_Interleaved(candidates, next) ==
  IF candidates # <<>> THEN "second"
  ELSE IF next <= Len(final_entries) THEN "first"
  ELSE "save"

\* after a turn of the first-pass loop: its next turn, then the
\* second-pass loop when there are candidates (line 1412), else the save
AfterFirst(candidates, next) ==
  IF next <= Len(final_entries) THEN "first"
  ELSE IF candidates # <<>> THEN "second"
  ELSE "save"

\* one turn of the first-pass loop, result being what judge_with_ai
\* returned for the entry (lines 1367-1409)
FirstPass(result) ==
  /\ pc = "first"
  /\ LET entry == final_entries[pos]
         uid == entry_uid(entry)
         normalized_title == TitleKey(entry.title)
         normalized_link == LinkKey(entry.link)
         candidate == DecisionOf(result) \in { "SCRAPE", "WATCHLIST" }
     IN
     /\ result \in { None } \cup Verdicts(entry)
     /\ last_result' = result
     /\ failed' = IF result = None THEN failed \cup { entry } ELSE failed
     /\ skipped' = IF result # None
                      /\ result.decision \notin { "SCRAPE", "WATCHLIST" }
                   THEN skipped \cup { entry }
                   ELSE skipped
     /\ IF result = None
        THEN UNCHANGED << first_stage_candidates, seen, seen_titles,
                          seen_original_titles, seen_links >>
        ELSE /\ first_stage_candidates' =
                  IF candidate
                  THEN Append(first_stage_candidates, << entry, result >>)
                  ELSE first_stage_candidates
             /\ seen' = IF uid # NoUid THEN seen \cup { uid } ELSE seen
             /\ seen_titles' =
                  IF normalized_title # <<>>
                  THEN seen_titles \cup { normalized_title }
                  ELSE seen_titles
             /\ seen_original_titles' =
                  IF entry.title # <<>>
                  THEN Append(seen_original_titles, entry.title)
                  ELSE seen_original_titles
             /\ seen_links' =
                  IF entry.link # NoUrl /\ normalized_link # NoUrl
                  THEN seen_links \cup { normalized_link }
                  ELSE seen_links
     /\ pc' = AfterFirst(first_stage_candidates', pos + 1)
     /\ pos' = IF pos + 1 <= Len(final_entries) THEN pos + 1 ELSE 1
  /\ UNCHANGED << file, errors, feed, slack, runs, sent_links,
                  recent_entries, candidate_entries, final_entries,
                  ai_judgment, sent_entries, sent_count, correlated, loads,
                  writes, last_outcome, ret >>
  /\ UNCHANGED << args, returned, new_entries, config, judged, raised >>

\* the second-pass call for one candidate (lines 1415-1439).  result is
\* what judge_with_ai did: it returned a verdict, returned None, or raised;
\* crawl_failed tells that fetch_full_article_content logged a failure
\* while the prompt was built.
SecondJudge(result, crawl_failed) ==
  /\ pc = "second"
  /\ LET entry == first_stage_candidates[pos][1]
         first_judgment == first_stage_candidates[pos][2]
         crawled == IF crawl_failed
                    THEN log_error(errors, "crawl_failed", entry)
                    ELSE errors
     IN
     /\ result \in { None, Raised } \cup Verdicts(entry)
     /\ crawl_failed => entry.link # NoUrl /\ result # Raised
     /\ crawl_failed \/ result \in { None, Raised } => entry.link \in Flaky
     /\ last_result' = result
     /\ ai_judgment' = SecondJudgment(result, first_judgment)
     /\ errors' = IF result = None
                  THEN log_error(crawled, "ai_judgment_failed", entry)
                  ELSE IF result = Raised
                  THEN log_error(crawled, "ai_judgment_error", entry)
                  ELSE crawled
     /\ pc' = "dispatch"
  /\ UNCHANGED << file, feed, slack, runs, seen, seen_titles,
                  seen_original_titles, seen_links, sent_links,
                  recent_entries, candidate_entries, final_entries,
                  first_stage_candidates, pos, sent_entries, sent_count,
                  correlated, loads, writes, failed, skipped, last_outcome,
                  ret >>
  /\ UNCHANGED << args, returned, new_entries, config, judged, raised >>

\* what post_one_to_slack can do: return early without a token or a
\* channel ("skipped"); raise from the request; return on ok=false; return
\* after a delivered message
PostOutcomes == IF slack THEN { "ok", "not_ok", "raise" } ELSE { "skipped" }

\* the send decision, the check against sent_entries and the Slack call
\* for the candidate judged last (lines 1441-1564)
Dispatch(outcome) ==
  /\ pc = "dispatch"
  /\ outcome \in PostOutcomes
  /\ LET entry == first_stage_candidates[pos][1]
         normalized_link == LinkKey(entry.link)
         worthy == should_send_article_ai_driven(ai_judgment)
         send == /\ worthy
                 /\ ~is_duplicate_sent(entry, ai_judgment, sent_entries)
         more == IF pos + 1 <= Len(first_stage_candidates)
                 THEN "second" ELSE "save"
     IN
     /\ correlated' = IF worthy
                      THEN Append(correlated, << entry, ai_judgment >>)
                      ELSE correlated
     /\ IF ~send
        THEN /\ pc' = more
             /\ pos' = pos + 1
             /\ last_outcome' = "none"
             /\ UNCHANGED << sent_count, sent_links, sent_entries >>
        ELSE /\ last_outcome' = outcome
             /\ IF outcome = "raise"
                THEN /\ pc' = "aborted"
                     /\ UNCHANGED << pos, sent_count, sent_links, sent_entries >>
                ELSE /\ pc' = more
                     /\ pos' = pos + 1
                     /\ sent_count' = sent_count + 1
                     /\ sent_links' =
                          IF entry.link # NoUrl /\ normalized_link # NoUrl
                          THEN sent_links \cup { normalized_link }
                          ELSE sent_links
                     /\ sent_entries' =
                          Append(sent_entries, << entry, ai_judgment >>)
  /\ UNCHANGED << file, errors, feed, slack, runs, seen, seen_titles,
                  seen_original_titles, seen_links, recent_entries,
                  candidate_entries, final_entries, first_stage_candidates,
                  ai_judgment, loads, writes, failed, skipped, last_result,
                  ret >>
  /\ UNCHANGED << args, returned, new_entries, config, judged, raised >>

\* SaveState without state["seen_links"]
SaveState_NoSeenLinks ==
  /\ pc = "save"
  /\ file' = [seen |-> seen,
              seen_titles |-> seen_titles,
              seen_original_titles |-> LastTitles(seen_original_titles),
              seen_links |-> {},
              sent_links |-> sent_links,
              complete |-> TRUE]
  /\ writes' = writes + 1
  /\ ret' = sent_count
  /\ pc' = "done"
  /\ UNCHANGED << errors, feed, slack, runs, seen, seen_titles,
                  seen_original_titles, seen_links, sent_links,
                  recent_entries, candidate_entries, final_entries,
                  first_stage_candidates, pos, ai_judgment, sent_entries,
                  sent_count, correlated, loads, failed, skipped,
                  last_result, last_outcome >>
  /\ UNCHANGED << args, returned, new_entries, config, judged, raised >>

\* the state is written and the run returns sent_count (lines 1566-1609)
SaveState ==
  /\ pc = "save"
  /\ file' = [seen |-> seen,
              seen_titles |-> seen_titles,
              seen_original_titles |-> LastTitles(seen_original_titles),
              seen_links |-> seen_links,
              sent_links |-> sent_links,
              complete |-> TRUE]
  /\ writes' = writes + 1
  /\ ret' = sent_count
  /\ pc' = "done"
  /\ UNCHANGED << errors, feed, slack, runs, seen, seen_titles,
                  seen_original_titles, seen_links, sent_links,
                  recent_entries, candidate_entries, final_entries,
                  first_stage_candidates, pos, ai_judgment, sent_entries,
                  sent_count, correlated, loads, failed, skipped,
                  last_result, last_outcome >>
  /\ UNCHANGED << args, returned, new_entries, config, judged, raised >>

\* save_state is cut short after it opened the file for writing (a full
\* disk, a killed process): the write at lines 133-135 is not atomic
SaveStateFault ==
  /\ pc = "save"
  /\ file' = TornState
  /\ writes' = writes + 1
  /\ pc' = "aborted"
  /\ UNCHANGED << errors, feed, slack, runs, seen, seen_titles,
                  seen_original_titles, seen_links, sent_links,
                  recent_entries, candidate_entries, final_entries,
                  first_stage_candidates, pos, ai_judgment, sent_entries,
                  sent_count, correlated, loads, failed, skipped,
                  last_result, last_outcome, ret >>
  /\ UNCHANGED << args, returned, new_entries, config, judged, raised >>

\* the process ends (the caller at line 1624 catches what was raised) and
\* the script is started again later: nothing of the run stays in memory
Exit ==
  /\ pc \in { "done", "aborted" }
  /\ runs < MaxRuns
  /\ pc' = "idle"
  /\ seen' = {}
  /\ seen_titles' = {}
  /\ seen_original_titles' = <<>>
  /\ seen_links' = {}
  /\ sent_links' = {}
  /\ recent_entries' = <<>>
  /\ candidate_entries' = <<>>
  /\ final_entries' = <<>>
  /\ first_stage_candidates' = <<>>
  /\ pos' = 0
  /\ ai_judgment' = None
  /\ sent_entries' = <<>>
  /\ sent_count' = 0
  /\ correlated' = <<>>
  /\ loads' = 0
  /\ writes' = 0
  /\ failed' = {}
  /\ skipped' = {}
  /\ last_result' = None
  /\ last_outcome' = "none"
  /\ ret' = -1
  /\ UNCHANGED << file, errors, feed, slack, runs >>
  /\ UNCHANGED << args, returned, new_entries, config, judged, raised >>

Next ==
  \/ LoadState
  \/ /\ pc = "fetch"
     /\ \E all_entries \in FeedOrders(feed, MaxFeed) : Fetch(all_entries)
  \/ FilterSeen
  \/ Consolidate
  \/ /\ pc = "first"
     /\ \E result \in { None } \cup Verdicts(final_entries[pos]) :
          FirstPass(result)
  \/ /\ pc = "second"
     /\ \E result \in { None, Raised }
                         \cup Verdicts(first_stage_candidates[pos][1]),
           crawl_failed \in BOOLEAN :
          SecondJudge(result, crawl_failed)
  \/ /\ pc = "dispatch"
     /\ \E outcome \in PostOutcomes : Dispatch(outcome)
  \/ SaveState
  \/ Exit

Spec == Init /\ [][Next]_vars

\* the runs when the write of the state file can be cut short
NextFaulty ==
  \/ Next
  \/ LoadStateFault
  \/ SaveStateFault

SpecFaulty == Init /\ [][NextFaulty]_vars

\* ------------------------------------------------------------------------
\* Runs on a state file the runs of the model did not write
\* ------------------------------------------------------------------------

\* a state file that holds "sent_links" and nothing else: load_state and
\* the reads of lines 1201-1208 take the fields it lacks as empty lists
SentOnlyState(links) ==
  [EmptyState EXCEPT !.sent_links = { LinkKey(u) : u \in links }]

StoredStates == { SentOnlyState({ LinkA }), SentOnlyState({ LinkA, LinkB }) }

InitStored ==
  /\ file \in StoredStates
  /\ errors = <<>>
  /\ feed \in Feeds
  /\ slack \in BOOLEAN
  /\ runs = 0
  /\ NoRun
  /\ args = <<>>
  /\ returned = <<>>
  /\ new_entries = <<>>
  /\ config = DefaultConfig
  /\ judged = {}
  /\ raised = {}

SpecStored == InitStored /\ [][Next]_vars

\* ------------------------------------------------------------------------
\* Runs on the feeds about the companies of korean_companies
\* ------------------------------------------------------------------------

InitTokens ==
  /\ file = EmptyState
  /\ errors = <<>>
  /\ feed \in TokenFeeds
  /\ slack \in BOOLEAN
  /\ runs = 0
  /\ NoRun
  /\ args = <<>>
  /\ returned = <<>>
  /\ new_entries = <<>>
  /\ config = DefaultConfig
  /\ judged = {}
  /\ raised = {}

SpecTokens == InitTokens /\ [][Next]_vars

\* ------------------------------------------------------------------------
\* Runs on a state file whose title log is one title short of its cap
\* ------------------------------------------------------------------------

LongLogState == [EmptyState EXCEPT !.seen_original_titles = OldLog]

InitLongLog ==
  /\ file = LongLogState
  /\ errors = <<>>
  /\ feed = CompanyFeed
  /\ slack \in BOOLEAN
  /\ runs = 0
  /\ NoRun
  /\ args = <<>>
  /\ returned = <<>>
  /\ new_entries = <<>>
  /\ config = DefaultConfig
  /\ judged = {}
  /\ raised = {}

SpecLongLog == InitLongLog /\ [][Next]_vars

\* ------------------------------------------------------------------------
\* is_similar_title called on its own
\* ------------------------------------------------------------------------

\* the largest threshold of a call, in tenths
MaxThreshold == 10

\* the titles of the calls: those of the feeds, the empty title, and titles
\* that take the branch of lines 303-311
SimilarTitles ==
  FeedTitles \cup
  { <<>>, TitleWindowsB, TitleLettersA, TitleLettersB, TitlePunct }

InitSimilar ==
  /\ file = EmptyState
  /\ errors = <<>>
  /\ feed = {}
  /\ slack = FALSE
  /\ runs = 0
  /\ NoRun
  /\ args \in SimilarTitles \X SimilarTitles \X (0..MaxThreshold)
  /\ returned = <<>>
  /\ new_entries = <<>>
  /\ config = DefaultConfig
  /\ judged = {}
  /\ raised = {}

\* returned = is_similar_title(title1, title2, threshold)
CallSimilar ==
  /\ Len(args) = 3
  /\ returned = <<>>
  /\ returned' = << is_similar_title(args[1], args[2], args[3]) >>
  /\ UNCHANGED << file, errors, feed, slack, runs, pc, seen, seen_titles,
                  seen_original_titles, seen_links, sent_links,
                  recent_entries, candidate_entries, final_entries,
                  first_stage_candidates, pos, ai_judgment, sent_entries,
                  sent_count, correlated, loads, writes, failed, skipped,
                  last_result, last_outcome, ret, args, new_entries, config,
                  judged, raised >>

SpecSimilar == InitSimilar /\ [][CallSimilar]_vars

\* ------------------------------------------------------------------------
\* normalize_url called on its own
\* ------------------------------------------------------------------------

\* news.kr behind no prefix, one mobile prefix, and two of them
UrlHosts ==
  LET news == << <<"n", "e", "w", "s">>, <<"k", "r">> >>
      m == << <<"m">> >>
      mobile == << <<"m", "o", "b", "i", "l", "e">> >>
      www == << <<"w", "w", "w">> >>
  IN  { news, LinkAMobile.netloc, www \o news, www \o m \o news,
        m \o m \o news, mobile \o m \o news, www \o m \o m \o news }

UrlPaths == { <<>>, <<"/">>, <<"/", "a">>, <<"/", "a", "/">> }

\* no query, utm_source=rss, B=1&a=2, UTM_SOURCE=rss
UrlQueries ==
  { <<>>,
    LinkAMobile.query,
    << << <<"B">>, <<"1">> >>, << <<"a">>, <<"2">> >> >>,
    << << <<"U", "T", "M", "_", "S", "O", "U", "R", "C", "E">>,
          <<"r", "s", "s">> >> >> }

UrlFragments == { <<>>, LinkAMobile.fragment }

Urls ==
  { [netloc |-> h, path |-> p, query |-> q, fragment |-> f] :
      h \in UrlHosts, p \in UrlPaths, q \in UrlQueries, f \in UrlFragments }

InitUrl ==
  /\ file = EmptyState
  /\ errors = <<>>
  /\ feed = {}
  /\ slack = FALSE
  /\ runs = 0
  /\ NoRun
  /\ args \in { << u >> : u \in Urls }
  /\ returned = <<>>
  /\ new_entries = <<>>
  /\ config = DefaultConfig
  /\ judged = {}
  /\ raised = {}

\* returned = normalize_url(url)
CallUrl ==
  /\ Len(args) = 1
  /\ returned = <<>>
  /\ returned' = << normalize_url(args[1]) >>
  /\ UNCHANGED << file, errors, feed, slack, runs, pc, seen, seen_titles,
                  seen_original_titles, seen_links, sent_links,
                  recent_entries, candidate_entries, final_entries,
                  first_stage_candidates, pos, ai_judgment, sent_entries,
                  sent_count, correlated, loads, writes, failed, skipped,
                  last_result, last_outcome, ret, args, new_entries, config,
                  judged, raised >>

SpecUrl == InitUrl /\ [][CallUrl]_vars

\* ------------------------------------------------------------------------
\* test.py: process_articles on state.test.json
\* ------------------------------------------------------------------------

\* state["seen"] = list(seen)[-2000:]
seen_cap == 2000

\* id (or guid) first, then the link, then the title
test_entry_uid(e) ==
  IF e.id # <<>> THEN [link |-> NoUrl, text |-> e.id]
  ELSE IF e.link # NoUrl THEN [link |-> e.link, text |-> <<>>]
  ELSE [link |-> NoUrl, text |-> e.title]

\* unique_entries of fetch_all_recent_entries: the entries with a uid, the
\* first one of every uid
RECURSIVE unique_entries(_)
unique_entries(all_entries) ==
  IF all_entries = <<>> THEN <<>>
  ELSE LET front == SubSeq(all_entries, 1, Len(all_entries) - 1)
           e == all_entries[Len(all_entries)]
       IN  IF /\ test_entry_uid(e) # NoUid
              /\ \A n \in 1..Len(front) :
                   test_entry_uid(front[n]) # test_entry_uid(e)
           THEN Append(unique_entries(front), e)
           ELSE unique_entries(front)

\* fetch_all_recent_entries(max_entries) of test.py, given what the feeds
\* returned (FILTER_KEYWORDS is empty: matches_filter lets every entry pass)
test_fetch_all_recent_entries(all_entries, limit) ==
  LET sorted == SortNewestFirst(unique_entries(all_entries)) IN
  SubSeq(sorted, 1, IF Len(sorted) < limit THEN Len(sorted) ELSE limit)

\* new_entries with the entries that are seen left in
AllEntriesNew(entries, seenSet) ==
  SelectSeq(entries, LAMBDA e : test_entry_uid(e) # NoUid)

\* the entries of recent_entries with a uid that is not in seen, in their
\* order
NewEntries(entries, seenSet) ==
  SelectSeq(entries,
            LAMBDA e : /\ test_entry_uid(e) # NoUid
                       /\ test_entry_uid(e) \notin seenSet)

\* what judge_with_ai of test.py can return besides None: the object of the
\* reply with its keys is_relevant ("true", "false"), importance and
\* impact_risk (a word, or a list, which no dict takes as a key)
TestJudgment(is_relevant, importance, impact_risk) ==
  [kind |-> "verdict", is_relevant |-> is_relevant,
   importance |-> importance, impact_risk |-> impact_risk]

\* the reply was the empty object
EmptyJudgment == [kind |-> "empty"]

\* the key importance or impact_risk is not in the verdict
NoWord == << Absent >>

\* a value of the reply that is a list
Unhashable == <<"[", "]">>

\* None, the empty object, {"raw_response": ai_response} when no object was
\* found in the reply, and objects of the reply
TestVerdicts ==
  { None, EmptyJudgment, TestJudgment(Absent, NoWord, NoWord),
    TestJudgment("true", High, High),
    TestJudgment("false", High, High),
    TestJudgment("true", Low, Medium),
    TestJudgment(Absent, NoWord, <<"?">>),
    TestJudgment("true", Unhashable, High) }

\* if ai_judgment: None and the empty object are falsy
Truthy(judgment) == judgment # None /\ judgment # EmptyJudgment

\* importance_levels.get(ai_judgment.get(key, Low), 1), and the same on a
\* setting, which is never missing
importance_levels(word) ==
  IF word \in { Low, NoWord } THEN 1
  ELSE IF word = Medium THEN 2
  ELSE IF word = High THEN 3
  ELSE 1

\* should_send_article(ai_judgment): "True", "False", or "TypeError" when
\* importance_levels.get is handed a list
should_send_article(judgment) ==
  IF ~Truthy(judgment) THEN "True"
  ELSE IF /\ config.AI_FILTER_REQUIRE_RELEVANT
          /\ judgment.is_relevant = "false"
  THEN "False"
  ELSE IF judgment.importance = Unhashable THEN "TypeError"
  ELSE IF importance_levels(judgment.importance)
            < importance_levels(config.AI_FILTER_MIN_IMPORTANCE)
  THEN "False"
  ELSE IF judgment.impact_risk = Unhashable THEN "TypeError"
  ELSE IF importance_levels(judgment.impact_risk)
            < importance_levels(config.AI_FILTER_MIN_IMPACT)
  THEN "False"
  ELSE "True"

\* list(seen)[-2000:]: the whole set while it holds at most 2000 uids, else
\* 2000 of them, whichever the order of the set puts last
last_seen(seenSet) ==
  IF Cardinality(seenSet) <= seen_cap THEN { seenSet }
  ELSE { kept \in SUBSET seenSet : Cardinality(kept) = seen_cap }

\* an article with the id of its feed, one without, a later article under
\* the id of the first, and an entry of which the feed gives nothing
TestFeed ==
  { [Entry(TitleCiscoA, LinkA, 3000, "plain") EXCEPT !.id = <<"g", "1">>],
    Entry(TitleCiscoB, LinkB, 2000, "plain"),
    [Entry(TitleCiscoC, LinkC, 1000, "plain") EXCEPT !.id = <<"g", "1">>],
    Entry(<<>>, NoUrl, 0, "plain") }

\* USE_AI_JUDGMENT=true alone, and with the three filters set
TestConfigs ==
  { DefaultConfig,
    [DefaultConfig EXCEPT !.USE_AI_JUDGMENT = TRUE],
    [USE_AI_JUDGMENT |-> TRUE, AI_FILTER_REQUIRE_RELEVANT |-> TRUE,
     AI_FILTER_MIN_IMPORTANCE |-> High, AI_FILTER_MIN_IMPACT |-> Medium] }

\* load_state() of test.py returns {"seen": []} while state.test.json does
\* not exist
InitTest ==
  /\ file = [seen |-> {}]
  /\ errors = <<>>
  /\ feed = TestFeed
  /\ slack \in BOOLEAN
  /\ runs = 0
  /\ NoRun
  /\ args = <<>>
  /\ returned = <<>>
  /\ new_entries = <<>>
  /\ config \in TestConfigs
  /\ judged = {}
  /\ raised = {}

\* state = load_state(); seen = set(state.get("seen", [])) (lines 542-543)
TestLoad ==
  /\ pc = "idle"
  /\ runs < MaxRuns
  /\ runs' = runs + 1
  /\ loads' = loads + 1
  /\ seen' = file.seen
  /\ pc' = "fetch"
  /\ UNCHANGED << file, errors, feed, slack, seen_titles,
                  seen_original_titles, seen_links, sent_links,
                  recent_entries, candidate_entries, final_entries,
                  first_stage_candidates, pos, ai_judgment, sent_entries,
                  sent_count, correlated, writes, failed, skipped,
                  last_result, last_outcome, ret, args, returned,
                  new_entries, config, judged, raised >>

\* recent_entries = fetch_all_recent_entries(max_entries=20); return 0 when
\* there is none (lines 546-550)
TestFetch(all_entries) ==
  /\ pc = "fetch"
  /\ recent_entries' = test_fetch_all_recent_entries(all_entries, max_entries)
  /\ IF recent_entries' = <<>>
     THEN pc' = "done" /\ ret' = 0
     ELSE pc' = "filter" /\ ret' = ret
  /\ UNCHANGED << file, errors, feed, slack, runs, seen, seen_titles,
                  seen_original_titles, seen_links, sent_links,
                  candidate_entries, final_entries, first_stage_candidates,
                  pos, ai_judgment, sent_entries, sent_count, correlated,
                  loads, writes, failed, skipped, last_result, last_outcome,
                  args, returned, new_entries, config, judged, raised >>

\* the loop that fills new_entries; return 0 when nothing is new
\* (lines 552-561)
TestFilter ==
  /\ pc = "filter"
  /\ new_entries' = NewEntries(recent_entries, seen)
  /\ IF new_entries' = <<>>
     THEN pc' = "done" /\ ret' = 0 /\ pos' = pos
     ELSE pc' = "judge" /\ ret' = ret /\ pos' = 1
  /\ UNCHANGED << file, errors, feed, slack, runs, seen, seen_titles,
                  seen_original_titles, seen_links, sent_links,
                  recent_entries, candidate_entries, final_entries,
                  first_stage_candidates, ai_judgment, sent_entries,
                  sent_count, correlated, loads, writes, failed, skipped,
                  last_result, last_outcome, args, returned, config,
                  judged, raised >>

\* the loop over new_entries goes on with the next entry, or ends
NextEntry ==
  IF pos < Len(new_entries)
  THEN pc' = "judge" /\ pos' = pos + 1
  ELSE pc' = "save" /\ pos' = pos

\* one turn of the loop up to the call of post_one_to_slack: the call of
\* judge_with_ai when USE_AI_JUDGMENT is set, and the filter on its verdict
\* (lines 568-588); a TypeError of should_send_article leaves the run
TestJudge(result) ==
  /\ pc = "judge"
  /\ LET entry == new_entries[pos]
         uid == test_entry_uid(entry)
         verdict == IF config.USE_AI_JUDGMENT THEN result ELSE None
         send == IF config.USE_AI_JUDGMENT
                 THEN should_send_article(verdict) ELSE "True"
     IN
     IF uid = NoUid
     THEN /\ NextEntry
          /\ UNCHANGED << seen, skipped, ai_judgment, last_result, judged >>
     ELSE /\ ai_judgment' = verdict
          /\ last_result' = verdict
          /\ judged' = IF config.USE_AI_JUDGMENT
                       THEN judged \cup { entry } ELSE judged
          /\ CASE send = "False" ->
                    /\ seen' = seen \cup { uid }
                    /\ skipped' = skipped \cup { entry }
                    /\ NextEntry
               [] send = "TypeError" ->
                    /\ pc' = "aborted"
                    /\ UNCHANGED << seen, skipped, pos >>
               [] OTHER ->
                    /\ pc' = "post"
                    /\ UNCHANGED << seen, skipped, pos >>
  /\ UNCHANGED << file, errors, feed, slack, runs, seen_titles,
                  seen_original_titles, seen_links, sent_links,
                  recent_entries, candidate_entries, final_entries,
                  first_stage_candidates, sent_entries, sent_count,
                  correlated, loads, writes, failed, last_outcome, ret,
                  args, returned, new_entries, config, raised >>

\* TestPost that counts and marks the entry also when the call raised
TestPost_MarksFailed(outcome) ==
  /\ pc = "post"
  /\ last_outcome' = outcome
  /\ seen' = seen \cup { test_entry_uid(new_entries[pos]) }
  /\ sent_count' = sent_count + 1
  /\ sent_entries' = Append(sent_entries, new_entries[pos])
  /\ failed' = IF outcome = "raise"
               THEN failed \cup { new_entries[pos] } ELSE failed
  /\ raised' = IF outcome = "raise"
               THEN raised \cup { new_entries[pos] } ELSE raised
  /\ NextEntry
  /\ UNCHANGED << file, errors, feed, slack, runs, seen_titles,
                  seen_original_titles, seen_links, sent_links,
                  recent_entries, candidate_entries, final_entries,
                  first_stage_candidates, ai_judgment, correlated, loads,
                  writes, skipped, last_result, ret, args, returned,
                  new_entries, config, judged >>

\* the try around post_one_to_slack (lines 591-599): seen.add(uid) and
\* sent_count += 1 after the call returned, continue when it raised;
\* sent_entries lists the entries the call returned for, failed the ones it
\* raised for
TestPost(outcome) ==
  /\ pc = "post"
  /\ last_outcome' = outcome
  /\ IF outcome = "raise"
     THEN /\ failed' = failed \cup { new_entries[pos] }
          /\ raised' = raised \cup { new_entries[pos] }
          /\ UNCHANGED << seen, sent_count, sent_entries >>
     ELSE /\ seen' = seen \cup { test_entry_uid(new_entries[pos]) }
          /\ sent_count' = sent_count + 1
          /\ sent_entries' = Append(sent_entries, new_entries[pos])
          /\ UNCHANGED << failed, raised >>
  /\ NextEntry
  /\ UNCHANGED << file, errors, feed, slack, runs, seen_titles,
                  seen_original_titles, seen_links, sent_links,
                  recent_entries, candidate_entries, final_entries,
                  first_stage_candidates, ai_judgment, correlated, loads,
                  writes, skipped, last_result, ret, args, returned,
                  new_entries, config, judged >>

\* state["seen"] = list(seen)[-2000:]; save_state(state); return sent_count
\* (lines 605-608)
TestSave ==
  /\ pc = "save"
  /\ \E kept \in last_seen(seen) : file' = [file EXCEPT !.seen = kept]
  /\ writes' = writes + 1
  /\ ret' = sent_count
  /\ pc' = "done"
  /\ UNCHANGED << errors, feed, slack, runs, seen, seen_titles,
                  seen_original_titles, seen_links, sent_links,
                  recent_entries, candidate_entries, final_entries,
                  first_stage_candidates, pos, ai_judgment, sent_entries,
                  sent_count, correlated, loads, failed, skipped,
                  last_result, last_outcome, args, returned, new_entries,
                  config, judged, raised >>

\* the process ends; the next run starts with nothing in memory
TestExit ==
  /\ pc \in { "done", "aborted" }
  /\ runs < MaxRuns
  /\ pc' = "idle"
  /\ seen' = {}
  /\ recent_entries' = <<>>
  /\ new_entries' = <<>>
  /\ pos' = 0
  /\ ai_judgment' = None
  /\ sent_entries' = <<>>
  /\ sent_count' = 0
  /\ loads' = 0
  /\ writes' = 0
  /\ failed' = {}
  /\ skipped' = {}
  /\ judged' = {}
  /\ last_result' = None
  /\ last_outcome' = "none"
  /\ ret' = -1
  /\ UNCHANGED << file, errors, feed, slack, runs, seen_titles,
                  seen_original_titles, seen_links, sent_links,
                  candidate_entries, final_entries, first_stage_candidates,
                  correlated, args, returned, config, raised >>

NextTest ==
  \/ TestLoad
  \/ /\ pc = "fetch"
     /\ \E all_entries \in FeedOrders(feed, MaxFeed) : TestFetch(all_entries)
  \/ TestFilter
  \/ /\ pc = "judge"
     /\ \E result \in IF config.USE_AI_JUDGMENT
                      THEN TestVerdicts ELSE { None } :
          TestJudge(result)
  \/ /\ pc = "post"
     \* post_one_to_slack returns at once when SLACK_WEBHOOK is not set;
     \* else it returns, or the request or raise_for_status raises
     /\ \E outcome \in IF slack THEN { "ok", "raise" } ELSE { "skipped" } :
          TestPost(outcome)
  \/ TestSave
  \/ TestExit

SpecTest == InitTest /\ [][NextTest]_vars

\* ------------------------------------------------------------------------
\* Properties
\* ------------------------------------------------------------------------

\* step 2 has run on candidate_entries in this run
Consolidated == pc \notin { "idle", "fetch", "filter", "consolidate" }

\* a turn of the second loop has just ended for first_stage_candidates[pos - 1]
Dispatched == pc \in { "second", "save" } /\ pos >= 2

\* post_one_to_slack was called for the entry in this run (line 1552): the
\* call returned and the entry is in sent_entries, or the call raised
Notified(entry) ==
  \/ \E n \in 1..Len(sent_entries) : sent_entries[n][1] = entry
  \/ /\ pc = "aborted"
     /\ last_outcome = "raise"
     /\ first_stage_candidates[pos][1] = entry

\* C1: a batch of three entries whose titles are pairwise similar at 0.4
\* and whose times differ leaves step 2 as the newest entry alone.
C1_ClusterKeepsNewestOnly ==
  ( /\ Consolidated
    /\ Len(candidate_entries) = 3
    /\ \A i, j \in 1..3 :
         i # j =>
           /\ SimilarTitle(candidate_entries[i].title,
                           candidate_entries[j].title, batch_threshold)
           /\ entry_ts(candidate_entries[i]) # entry_ts(candidate_entries[j]) )
  => \E n \in 1..3 :
       /\ \A j \in 1..3 :
            entry_ts(candidate_entries[j]) <= entry_ts(candidate_entries[n])
       /\ final_entries = << candidate_entries[n] >>

\* C2: a batch of two entries of times 1000 (A) and 2000 (B) whose titles
\* name the same known company, have a security keyword each and are not
\* similar leaves step 2 as [B].
C2_SameCompanyKeepsNewer ==
  ( /\ Consolidated
    /\ Len(candidate_entries) = 2
    /\ { entry_ts(candidate_entries[1]), entry_ts(candidate_entries[2]) }
         = { 1000, 2000 }
    /\ \E c \in 1..Len(korean_companies) :
         /\ Contains(candidate_entries[1].title, korean_companies[c])
         /\ Contains(candidate_entries[2].title, korean_companies[c])
    /\ ContainsAny(candidate_entries[1].title, security_keywords)
    /\ ContainsAny(candidate_entries[2].title, security_keywords)
    /\ ~SimilarTitle(candidate_entries[1].title, candidate_entries[2].title,
                     batch_threshold) )
  => \E n \in 1..2 :
       /\ entry_ts(candidate_entries[n]) = 2000
       /\ final_entries = << candidate_entries[n] >>

\* C3: of every connected component of the batch (edges: titles similar at
\* 0.4; the same known company and a security keyword in both titles; the
\* same product group and an update keyword in both titles) at most one
\* entry leaves step 2.  Three rounds of neighbours reach every member of a
\* component of a batch of at most four entries.
C3_OnePerComponent ==
  Consolidated =>
    LET batch == Range(candidate_entries)
        Names(e, words) == \E n \in 1..Len(words) :
                             Contains(StrLower(e.title), StrLower(words[n]))
        Edge(a, b) ==
          /\ a # b
          /\ \/ SimilarTitle(a.title, b.title, batch_threshold)
             \/ /\ \E c \in 1..Len(korean_companies) :
                     /\ Names(a, << korean_companies[c] >>)
                     /\ Names(b, << korean_companies[c] >>)
                /\ Names(a, security_keywords)
                /\ Names(b, security_keywords)
             \/ /\ \E g \in 1..Len(product_keywords) :
                     /\ Names(a, product_keywords[g])
                     /\ Names(b, product_keywords[g])
                /\ Names(a, update_keywords)
                /\ Names(b, update_keywords)
        Step(S) == S \cup { e \in batch : \E s \in S : Edge(s, e) }
        Component(a) == Step(Step(Step({ a })))
    IN  \A a \in batch :
          Cardinality(Range(final_entries) \cap Component(a)) <= 1

\* C4 (as amended): a candidate with a SCRAPE or WATCHLIST verdict is not
\* notified when an entry of sent_entries has a CVE id in common with it,
\* letter case aside, and was published less than 604800 seconds from it;
\* it is notified when no entry of sent_entries has such a CVE id within
\* that time and none matches it by another rule (same title, titles
\* similar at 0.3, same company, same product).
C4_CveRuleAgainstLedger ==
  [][ ( /\ pc = "dispatch"
        /\ pc' # "dispatch"
        /\ ai_judgment.decision \in { "SCRAPE", "WATCHLIST" } )
      => LET entry == first_stage_candidates[pos][1]
             Ids(j) == { StrUpper(j.CVE_IDs[n]) : n \in 1..Len(j.CVE_IDs) }
             SameCve(s) == Ids(ai_judgment) \cap Ids(s[2]) # {}
             Apart(s) == Abs(entry_ts(entry) - entry_ts(s[1]))
             Other(s) == \/ entry.title = s[1].title
                         \/ SimilarTitle(entry.title, s[1].title,
                                         sent_threshold)
                         \/ SameCompanySent(entry, s[1])
                         \/ SameProductSent(entry, ai_judgment, s[1], s[2])
         IN  /\ ( \E n \in 1..Len(sent_entries) :
                    /\ SameCve(sent_entries[n])
                    /\ Apart(sent_entries[n]) < 604800 )
                => last_outcome' = "none"
             /\ ( \A n \in 1..Len(sent_entries) :
                    /\ ~Other(sent_entries[n])
                    /\ SameCve(sent_entries[n])
                         => Apart(sent_entries[n]) >= 604800 )
                => last_outcome' # "none"
    ]_vars

\* C4, reached: a candidate with a send-worthy verdict has just been held
\* back and the only rule that matches it is the CVE rule, against a sent
\* entry whose CVE id is written in another letter case.
C4_CveSuppressed ==
  /\ Dispatched
  /\ last_outcome = "none"
  /\ ai_judgment.decision \in { "SCRAPE", "WATCHLIST" }
  /\ LET entry == first_stage_candidates[pos - 1][1] IN
     /\ \E n \in 1..Len(sent_entries) :
          /\ UpperSet(ai_judgment.CVE_IDs)
               \cap UpperSet(sent_entries[n][2].CVE_IDs) # {}
          /\ ai_judgment.CVE_IDs # sent_entries[n][2].CVE_IDs
          /\ Abs(entry_ts(entry) - entry_ts(sent_entries[n][1])) < 604800
     /\ \A n \in 1..Len(sent_entries) :
          /\ entry.title # sent_entries[n][1].title
          /\ ~SimilarTitle(entry.title, sent_entries[n][1].title,
                           sent_threshold)
          /\ ~SameCompanySent(entry, sent_entries[n][1])
          /\ ~SameProductSent(entry, ai_judgment, sent_entries[n][1],
                              sent_entries[n][2])

\* C4 (as stated): of two candidates of one run that both came to the check
\* against sent_entries with a SCRAPE or WATCHLIST verdict and have a CVE
\* id in common, letter case aside, the later one is not notified when
\* their times differ by less than 604800 seconds.
C4_CveRuleAnyPair ==
  \A i, j \in 1..Len(correlated) :
    ( /\ i < j
      /\ { StrUpper(correlated[i][2].CVE_IDs[n]) :
             n \in 1..Len(correlated[i][2].CVE_IDs) }
           \cap { StrUpper(correlated[j][2].CVE_IDs[n]) :
                    n \in 1..Len(correlated[j][2].CVE_IDs) } # {}
      /\ Abs(entry_ts(correlated[i][1]) - entry_ts(correlated[j][1]))
           < 604800 )
    => ~Notified(correlated[j][1])

\* C5: the second call of judge_with_ai is made only for an entry whose
\* first-pass verdict has the decision SCRAPE or WATCHLIST; an entry whose
\* first-pass decision is anything else is never a candidate of the second
\* loop and is never notified.
C5_Gating ==
  /\ \A n \in 1..Len(first_stage_candidates) :
       /\ first_stage_candidates[n][2].decision \in { "SCRAPE", "WATCHLIST" }
       /\ first_stage_candidates[n][1] \notin skipped
  /\ pc = "dispatch" =>
       first_stage_candidates[pos][2].decision \in { "SCRAPE", "WATCHLIST" }
  /\ \A e \in skipped : ~Notified(e)

\* C5, reached: a run has ended in which the first pass skipped two
\* entries of three and the third was judged twice and notified.
C5_SkippedWhileOtherSent ==
  /\ pc = "done"
  /\ writes = 1
  /\ Cardinality(skipped) = 2
  /\ Len(sent_entries) = 1
  /\ Len(final_entries) = 3

\* C6: an entry whose first-pass call returned None is not notified, is no
\* candidate of the second loop, and its uid, title key, title and link key
\* are in the state the run writes.
C6_FailedRecordedSeen ==
  (pc = "done" /\ writes = 1) =>
    \A e \in failed :
      /\ ~Notified(e)
      /\ \A n \in 1..Len(first_stage_candidates) :
           first_stage_candidates[n][1] # e
      /\ entry_uid(e) \in file.seen
      /\ TitleKey(e.title) \in file.seen_titles
      /\ e.title \in Range(file.seen_original_titles)
      /\ LinkKey(e.link) \in file.seen_links

\* C7: when the second call of judge_with_ai returns None or raises, the
\* loop goes on to the send decision with the first-pass verdict, one entry
\* for the failed call is added to the error log, and the entry is notified
\* exactly when the first-pass verdict passes the send decision and the
\* check against sent_entries, with that verdict put into sent_entries.
C7_SecondPassFallback ==
  [][ LET entry == first_stage_candidates[pos][1]
          first_judgment == first_stage_candidates[pos][2]
          JudgeErrors(log) ==
            Cardinality({ n \in 1..Len(log) :
                            log[n].type \in { "ai_judgment_failed",
                                              "ai_judgment_error" } })
      IN  /\ ( /\ pc = "second"
               /\ pc' # "second"
               /\ last_result' \in { None, Raised } )
             => /\ pc' = "dispatch"
                /\ ai_judgment' = first_judgment
                /\ JudgeErrors(errors') = JudgeErrors(errors) + 1
                /\ errors'[Len(errors')].title = entry.title
                /\ errors'[Len(errors')].link = entry.link
          /\ ( /\ pc = "dispatch"
               /\ pc' # "dispatch"
               /\ last_result \in { None, Raised } )
             => /\ (last_outcome' # "none")
                     = ( /\ should_send_article_ai_driven(first_judgment)
                         /\ ~is_duplicate_sent(entry, first_judgment,
                                               sent_entries) )
                /\ Len(sent_entries') > Len(sent_entries)
                     => sent_entries'[Len(sent_entries')]
                          = << entry, first_judgment >>
    ]_vars

\* C7, reached: the second call for a candidate failed, one error was
\* logged, and the candidate was delivered to Slack with its first-pass
\* verdict.
C7_FallbackNotified ==
  /\ Dispatched
  /\ last_result \in { None, Raised }
  /\ last_outcome = "ok"
  /\ sent_entries # <<>>
  /\ sent_entries[Len(sent_entries)] = first_stage_candidates[pos - 1]
  /\ Len(errors) = 1

\* C8: sent_links and sent_entries grow in a turn of the second loop only
\* when post_one_to_slack delivered the message.
C8_LedgerOnlyOnSuccess ==
  [][ ( /\ pc = "dispatch"
        /\ \/ sent_entries' # sent_entries
           \/ sent_links' # sent_links )
      => last_outcome' = "ok" ]_vars

C10_OneLoadOneWrite ==
  pc \in { "done", "aborted" } => loads = 1 /\ writes = 1

\* C11: the state file changes only in the step that completes save_state,
\* so a run that is aborted at any step leaves the file as it was loaded.
C11_AllOrNothing ==
  [][ file' # file => (pc = "save" /\ pc' = "done") ]_vars

\* C12: a Slack request that raises does not end the run.
C12_NotifyFailureContinues ==
  last_outcome = "raise" => pc # "aborted"

\* C16: the count a run returns starts at 0, is raised by one in exactly
\* the turns of the second loop in which post_one_to_slack delivered the
\* message, and is what the run returns.
C16_ReturnsDelivered ==
  [][ /\ pc = "idle" => sent_count' = 0
      /\ pc = "dispatch" =>
           sent_count' = sent_count + (IF last_outcome' = "ok" THEN 1 ELSE 0)
      /\ (pc = "save" /\ pc' = "done") => ret' = sent_count
    ]_vars

\* C14: while a run is at work on the state it loaded, no entry that goes
\* to judge_with_ai (first or second call) has its link key, its uid or its
\* title key in that state, or a title similar at 0.4 to a title of the
\* state's title log.
C14_KnownNeverClassified ==
  (loads = 1 /\ writes = 0 /\ file.complete) =>
    \A e \in Range(final_entries)
             \cup { first_stage_candidates[n][1] :
                      n \in 1..Len(first_stage_candidates) } :
      /\ ~(e.link # NoUrl /\ LinkKey(e.link) \in file.seen_links)
      /\ entry_uid(e) \notin file.seen
      /\ TitleKey(e.title) \notin file.seen_titles
      /\ \A n \in 1..Len(file.seen_original_titles) :
           ~SimilarTitle(e.title, file.seen_original_titles[n],
                         batch_threshold)

\* C14, reached: a second run has filtered its fetch, and a fetched entry
\* that the loaded state knows by its link key alone was dropped.
C14_KnownByLinkDropped ==
  /\ runs = 2
  /\ pc = "done"
  /\ loads = 1
  /\ writes = 0
  /\ \E e \in Range(recent_entries) :
       /\ e \notin Range(candidate_entries)
       /\ LinkKey(e.link) \in file.seen_links
       /\ entry_uid(e) \notin file.seen
       /\ TitleKey(e.title) \notin file.seen_titles

\* C15: a first-pass verdict without a decision makes the entry no
\* candidate of the second loop; a candidate whose verdict at the send
\* decision has no decision is not notified.
C15_NoDecisionIsSkip ==
  [][ /\ ( /\ pc = "first"
           /\ last_result'.kind = "verdict"
           /\ last_result'.decision = Absent )
         => first_stage_candidates' = first_stage_candidates
      /\ ( /\ pc = "dispatch"
           /\ pc' # "dispatch"
           /\ ai_judgment.kind = "verdict"
           /\ ai_judgment.decision = Absent )
         => /\ last_outcome' = "none"
            /\ sent_entries' = sent_entries
            /\ pc' # "aborted"
    ]_vars

\* C15, reached: the second call returned a verdict without a decision for
\* a candidate, and the turn ended without a call of post_one_to_slack.
C15_SecondVerdictWithoutDecision ==
  /\ Dispatched
  /\ last_result.kind = "verdict"
  /\ last_result.decision = Absent
  /\ ai_judgment = last_result
  /\ last_outcome = "none"
  /\ first_stage_candidates[pos - 1][1] \notin
       { sent_entries[n][1] : n \in 1..Len(sent_entries) }

\* C17: no entry is notified after an entry of the ledger whose title has
\* a token of korean_companies in common with its title (the token as it is
\* written in the list, LG in capitals), when both titles hold a keyword of
\* security_keywords and the entry is not newer than the ledger's entry.
C17_SameCompanyEveryToken ==
  \A i, j \in 1..Len(sent_entries) :
    i < j =>
      ~ \E c \in 1..Len(korean_companies) :
          /\ Contains(sent_entries[i][1].title, korean_companies[c])
          /\ Contains(sent_entries[j][1].title, korean_companies[c])
          /\ ContainsAny(sent_entries[i][1].title, security_keywords)
          /\ ContainsAny(sent_entries[j][1].title, security_keywords)
          /\ entry_ts(sent_entries[j][1]) <= entry_ts(sent_entries[i][1])

\* C18: what is_similar_title returns for two titles and a threshold is
\* what it returns for the titles in the other order, and it returns True
\* for a non-empty title and itself.
C18_SymmetricReflexive ==
  returned # <<>> =>
    /\ returned[1] = is_similar_title(args[2], args[1], args[3])
    /\ (args[1] = args[2] /\ args[1] # <<>>) => returned[1] = TRUE

\* C18, reached: a call on two different titles without keywords and of
\* different lengths returned True, and so does the call in the other order.
C18_SimilarByLengthBothWays ==
  /\ returned = << TRUE >>
  /\ args[1] # args[2]
  /\ extract_keywords(args[1]) = {}
  /\ Len(normalize_title(args[1])) < Len(normalize_title(args[2]))
  /\ is_similar_title(args[2], args[1], args[3])

\* C19: for two different titles that both have keywords and both have
\* names (extract_product_names), without a name in common,
\* is_similar_title returns False at every threshold.
C19_NamesOverrideKeywords ==
  ( /\ returned # <<>>
    /\ args[1] # args[2]
    /\ extract_keywords(args[1]) # {}
    /\ extract_keywords(args[2]) # {}
    /\ extract_product_names(args[1]) # {}
    /\ extract_product_names(args[2]) # {}
    /\ extract_product_names(args[1]) \cap extract_product_names(args[2]) = {} )
  => returned[1] = FALSE

\* C19, reached: a call returned False for two titles with names of their
\* own and without a common one, while half of their keywords are common
\* and the threshold is no more than that.
C19_OverlapOverridden ==
  /\ returned = << FALSE >>
  /\ extract_product_names(args[1]) # {}
  /\ extract_product_names(args[2]) # {}
  /\ extract_product_names(args[1]) \cap extract_product_names(args[2]) = {}
  /\ extract_keywords(args[1]) \cap extract_keywords(args[2]) # {}
  /\ 2 * Cardinality(extract_keywords(args[1]) \cap extract_keywords(args[2]))
       >= Cardinality(extract_keywords(args[1]) \cup extract_keywords(args[2]))
  /\ args[3] <= 5

\* C20: normalize_url called on what normalize_url returned returns it
\* unchanged.
C20_Idempotent ==
  returned # <<>> => normalize_url(returned[1]) = returned[1]

\* C13: the title log of the state file never has more than 1000 titles;
\* a run appends its titles to the log it loaded, and the log it writes is
\* the last 1000 titles of that sequence in their order (all of them when
\* they are no more than 1000).
C13_TitleLogKeepsLatest ==
  LET stored == file.seen_original_titles
      k == Len(seen_original_titles)
      m == Len(stored)
  IN
  /\ m <= 1000
  /\ (loads = 1 /\ writes = 0) =>
       /\ m <= k
       /\ \A n \in 1..m : seen_original_titles[n] = stored[n]
  /\ (pc = "done" /\ writes = 1) =>
       /\ m = (IF k > 1000 THEN 1000 ELSE k)
       /\ \A n \in 1..m : stored[n] = seen_original_titles[k - m + n]

\* C13, reached: a run that had more than 1000 titles in its log wrote the
\* state, and the oldest title is gone from the written log.
C13_OldestDropped ==
  /\ pc = "done"
  /\ writes = 1
  /\ Len(seen_original_titles) > 1000
  /\ Len(file.seen_original_titles) = 1000
  /\ seen_original_titles[1] \notin Range(file.seen_original_titles)

\* C21: in every state of a run the title log, as the run holds it (the
\* list that line 1399 appends to), has at most 1000 titles.
C21_LogCappedAtEveryStep ==
  Len(seen_original_titles) <= 1000

\* C23: every entry post_one_to_slack was called for is in the ledger with
\* a verdict whose decision is SCRAPE or WATCHLIST (the verdict of the
\* second call, or of the first when the second returned None or raised),
\* and a candidate whose second call returned a verdict with another
\* decision, or with none, ends its turn without a call of post_one_to_slack.
C23_NotifiedOnEffectiveVerdict ==
  /\ \A n \in 1..Len(sent_entries) :
       sent_entries[n][2].decision \in { "SCRAPE", "WATCHLIST" }
  /\ (pc = "aborted" /\ last_outcome = "raise") =>
       ai_judgment.decision \in { "SCRAPE", "WATCHLIST" }
  /\ ( /\ pc \in { "second", "save", "aborted" }
       /\ last_outcome # "none" ) =>
       \/ last_result.kind # "verdict"
       \/ last_result.decision \in { "SCRAPE", "WATCHLIST" }
  /\ ( /\ Dispatched
       /\ last_result.kind = "verdict"
       /\ last_result.decision \notin { "SCRAPE", "WATCHLIST" } ) =>
       /\ last_outcome = "none"
       /\ ~Notified(first_stage_candidates[pos - 1][1])

\* C23, reached: a candidate of the first pass got SKIP from the second
\* call and was not notified, after another candidate was.
C23_SecondSkipNotNotified ==
  /\ Dispatched
  /\ last_result.kind = "verdict"
  /\ last_result.decision = "SKIP"
  /\ first_stage_candidates[pos - 1][2].decision \in { "SCRAPE", "WATCHLIST" }
  /\ last_outcome = "none"
  /\ sent_entries # <<>>
  /\ ~Notified(first_stage_candidates[pos - 1][1])

\* C24: at every point of a run, no two entries of sent_entries have the
\* same title, titles similar at 0.3, or a CVE id in common (letter case
\* aside) while their times differ by less than 604800 seconds.
C24_LedgerPairwiseDistinct ==
  \A i, j \in 1..Len(sent_entries) :
    i # j =>
      LET a == sent_entries[i]
          b == sent_entries[j]
          Ids(v) == { StrUpper(v.CVE_IDs[n]) : n \in 1..Len(v.CVE_IDs) }
      IN  /\ a[1].title # b[1].title
          /\ ~SimilarTitle(a[1].title, b[1].title, 3)
          /\ ~ ( /\ Ids(a[2]) \cap Ids(b[2]) # {}
                 /\ Abs(entry_ts(a[1]) - entry_ts(b[1])) < 604800 )

\* C24, reached: the ledger holds two entries with a CVE id in common that
\* were published 604800 seconds or more apart.
C24_SameCveFarApartBothSent ==
  \E i, j \in 1..Len(sent_entries) :
    /\ i < j
    /\ { StrUpper(sent_entries[i][2].CVE_IDs[n]) :
           n \in 1..Len(sent_entries[i][2].CVE_IDs) }
         \cap { StrUpper(sent_entries[j][2].CVE_IDs[n]) :
                  n \in 1..Len(sent_entries[j][2].CVE_IDs) } # {}
    /\ Abs(entry_ts(sent_entries[i][1]) - entry_ts(sent_entries[j][1]))
         >= 604800

C26_EarlyExitFrame ==
  [][ /\ ( /\ pc # "done"
           /\ pc' = "done"
           /\ recent_entries' = <<>> \/ candidate_entries' = <<>> )
         => /\ ret' = 0
            /\ file' = file
            /\ writes' = 0
            /\ failed' = {}
            /\ skipped' = {}
            /\ first_stage_candidates' = <<>>
            /\ last_result' = None
            /\ sent_entries' = <<>>
            /\ sent_count' = 0
            /\ last_outcome' = "none"
      /\ file' # file => writes' = writes + 1
    ]_vars

\* C26, reached: a second run found every fetched entry in the state the
\* first run wrote and ended with 0, the state file as it was loaded.
C26_NothingNewNothingWritten ==
  /\ runs = 2
  /\ pc = "done"
  /\ recent_entries # <<>>
  /\ candidate_entries = <<>>
  /\ ret = 0
  /\ writes = 0
  /\ file.seen = seen
  /\ seen # {}

\* C27: from an empty state file on, whatever runs ended or were cut short,
\* every link key of the file's sent_links is in the file's seen_links, and
\* so it is in the sets a run holds.
C27_SentLinksAreSeenLinks ==
  /\ file.sent_links \subseteq file.seen_links
  /\ sent_links \subseteq seen_links

\* C27, reached: a second run was cut short by post_one_to_slack after a
\* first run wrote a state file with a sent link.
C27_AbortedAfterSentLinkWritten ==
  /\ runs = 2
  /\ pc = "aborted"
  /\ file.sent_links # {}
  /\ seen_links # file.seen_links

\* C29: the first loop calls judge_with_ai once for each entry of
\* final_entries, in their order; the second loop starts when the first has
\* judged them all, and calls judge_with_ai once for each candidate, each
\* candidate being an entry the first loop gave SCRAPE or WATCHLIST; a run
\* judges at most max_entries (20) entries.
C29_CallsOncePerPass ==
  [][ LET done == failed' \cup skipped'
                      \cup { first_stage_candidates'[n][1] :
                               n \in 1..Len(first_stage_candidates') }
          calls == Cardinality(failed') + Cardinality(skipped')
                     + Len(first_stage_candidates')
      IN
      /\ Len(final_entries') <= 20
      /\ pc = "first" =>
           /\ final_entries[pos] \notin
                failed \cup skipped
                  \cup { first_stage_candidates[n][1] :
                           n \in 1..Len(first_stage_candidates) }
           /\ final_entries[pos] \in done
           /\ pc' = "first" => pos' = pos + 1
      /\ pc' = "first" =>
           /\ pos' \in 1..Len(final_entries')
           /\ done = { final_entries'[n] : n \in 1..(pos' - 1) }
           /\ calls = pos' - 1
      /\ pc' \in { "second", "dispatch" } =>
           /\ done = Range(final_entries')
           /\ calls = Len(final_entries')
           /\ pos' \in 1..Len(first_stage_candidates')
           /\ \A m, n \in 1..Len(first_stage_candidates') :
                first_stage_candidates'[m][1] = first_stage_candidates'[n][1]
                  => m = n
           /\ \A n \in 1..Len(first_stage_candidates') :
                first_stage_candidates'[n][2].decision
                  \in { "SCRAPE", "WATCHLIST" }
      /\ pc \in { "second", "dispatch" } /\ pc' \notin { "idle" } =>
           /\ first_stage_candidates' = first_stage_candidates
           /\ failed' = failed
           /\ skipped' = skipped
      /\ pc = "second" => pc' = "dispatch" /\ pos' = pos
      /\ (pc = "dispatch" /\ pc' = "second") => pos' = pos + 1
    ]_vars

\* C29, reached: the second call for the second candidate has been made in
\* a run whose first loop judged three entries, one of them no candidate.
C29_SecondLoopAfterFirst ==
  /\ pc = "dispatch"
  /\ pos = 2
  /\ Len(final_entries) = 3
  /\ Len(first_stage_candidates) = 2
  /\ failed \cup skipped # {}

\* C30: whatever a run does to the state file, the file's seen, seen_titles,
\* seen_links and sent_links after it hold everything they held before.
C30_SetsOnlyGrow ==
  [][ /\ file.seen \subseteq file'.seen
      /\ file.seen_titles \subseteq file'.seen_titles
      /\ file.seen_links \subseteq file'.seen_links
      /\ file.sent_links \subseteq file'.sent_links
    ]_vars

\* C22: in test.py's process_articles judge_with_ai is called only for
\* entries of new_entries, never for an entry whose uid is in the seen set
\* the run loaded (the state file, until the run writes it), and a run in
\* which no fetched entry is new ends with no call of judge_with_ai, nothing
\* sent, no write and the return value 0.
C22_ClassifierOnlyForNew ==
  /\ judged \subseteq Range(new_entries)
  /\ ~config.USE_AI_JUDGMENT => judged = {}
  /\ writes = 0 =>
       \A e \in judged : test_entry_uid(e) \notin file.seen
  /\ ( /\ pc = "done"
       /\ writes = 0
       /\ \A n \in 1..Len(recent_entries) :
            test_entry_uid(recent_entries[n]) \in file.seen )
     => /\ judged = {}
        /\ sent_entries = <<>>
        /\ sent_count = 0
        /\ last_outcome = "none"
        /\ ret = 0

\* C22, reached: a later run fetched an entry that is seen and one that is
\* not, and called judge_with_ai for the new one alone
C22_SeenSkippedNewJudged ==
  /\ pc = "save"
  /\ config.USE_AI_JUDGMENT
  /\ judged # {}
  /\ \E n \in 1..Len(recent_entries) :
       /\ test_entry_uid(recent_entries[n]) \in file.seen
       /\ recent_entries[n] \notin judged

\* C28: in test.py's process_articles a call of post_one_to_slack that
\* raises leaves seen, sent_count and the state file as they were and the
\* loop goes on with the next entry, or to the write of the state after the
\* last one; seen grows during a run only by the uid of the entry at hand,
\* after its call of post_one_to_slack returned or its verdict was filtered
\* out; the write stores seen after every new entry was handled, without the
\* uid of an entry whose call raised; and the next run takes every fetched
\* entry whose call raised and whose uid is not in the stored set as new.
C28_SlackFailureContinues ==
  [][ /\ (pc = "post" /\ failed' # failed) =>
           /\ last_outcome' = "raise"
           /\ seen' = seen
           /\ sent_count' = sent_count
           /\ file' = file
           /\ IF pos < Len(new_entries)
              THEN pc' = "judge" /\ pos' = pos + 1
              ELSE pc' = "save"
      /\ (pc \in { "judge", "post" } /\ seen' # seen) =>
           /\ seen' = seen \cup { test_entry_uid(new_entries[pos]) }
           /\ \/ pc = "post" /\ last_outcome' \in { "ok", "skipped" }
              \/ /\ pc = "judge"
                 /\ new_entries[pos] \in skipped'
                 /\ should_send_article(ai_judgment') = "False"
      /\ pc = "save" =>
           /\ Range(new_entries) = Range(sent_entries) \cup skipped \cup failed
           /\ pc' = "done"
           /\ writes' = writes + 1
           /\ file'.seen = seen
           /\ \A e \in failed : test_entry_uid(e) \notin file'.seen
      /\ pc = "filter" =>
           \A n \in 1..Len(recent_entries) :
             ( /\ recent_entries[n] \in raised
               /\ test_entry_uid(recent_entries[n]) \notin file.seen )
             => recent_entries[n] \in Range(new_entries')
    ]_vars

\* C28, reached: the call raised for an entry in an earlier run, an older
\* entry of that run is in the stored set, and this run is about to call
\* post_one_to_slack for the first entry again
C28_RaisedEntryProcessedAgain ==
  /\ pc = "post"
  /\ writes = 0
  /\ failed = {}
  /\ new_entries[pos] \in raised
  /\ \E e \in feed :
       /\ test_entry_uid(e) \in file.seen
       /\ entry_ts(e) < entry_ts(new_entries[pos])

====
